---- MODULE Spec2Model ----
(***************************************************************************)
(* The APT source mutation engine of gantry                                *)
(* (src-tauri/src/modules/config.rs): parse_sources_file, list_apt_repos,  *)
(* toggle_apt_repo, add_apt_repo and delete_apt_repo over a file system of *)
(* text files, the startup-entry commands of macOS over a directory of     *)
(* property lists and those of Linux over a directory of desktop entries,  *)
(* and the script commands (src-tauri/src/modules/scripts.rs).  File       *)
(* contents, paths and identifiers are strings and are processed character *)
(* by character, as the Rust code does.                                    *)
(***************************************************************************)
EXTENDS Integers, Sequences, FiniteSets, TLC

VARIABLES fs, result, last, loc, calls

vars == <<fs, result, last, loc, calls>>

(***************************************************************************)
(* Bounds of the model.                                                    *)
(***************************************************************************)
\* most lines of a traditional file in the initial file system
MaxLines == 2
\* most paragraphs of a DEB822 file in the initial file system
MaxStanzas == 2
\* toggle_apt_repo is no longer called once a paragraph of a file holds more
\* `Enabled:` lines than this
MaxEnabledLines == 1
\* largest line number given to the record locator
MaxLineNo == 120

(***************************************************************************)
(* Strings: the std operations the code uses.                              *)
(***************************************************************************)
Ch(s, i) == SubSeq(s, i, i)

From(s, i) == SubSeq(s, i, Len(s))

\* char::is_whitespace, on the characters the model's files hold
IsWhitespace(c) == c \in {" ", "\t", "\n", "\r"}

\* str::starts_with
starts_with(s, p) == Len(s) >= Len(p) /\ SubSeq(s, 1, Len(p)) = p

RECURSIVE trim_start(_)
\* str::trim_start
trim_start(s) ==
    IF Len(s) > 0 /\ IsWhitespace(Ch(s, 1)) THEN trim_start(From(s, 2)) ELSE s

RECURSIVE trim_end(_)
\* str::trim_end
trim_end(s) ==
    IF Len(s) > 0 /\ IsWhitespace(Ch(s, Len(s)))
    THEN trim_end(SubSeq(s, 1, Len(s) - 1))
    ELSE s

\* str::trim
trim(s) == trim_end(trim_start(s))

RECURSIVE trim_start_matches(_, _)
\* str::trim_start_matches: every repetition of the prefix p is removed
trim_start_matches(s, p) ==
    IF Len(p) > 0 /\ starts_with(s, p)
    THEN trim_start_matches(From(s, Len(p) + 1), p)
    ELSE s

UpperCase == "ABCDEFGHIJKLMNOPQRSTUVWXYZ"

LowerCase == "abcdefghijklmnopqrstuvwxyz"

LowerCh(c) ==
    IF \E i \in 1..Len(UpperCase) : Ch(UpperCase, i) = c
    THEN Ch(LowerCase, CHOOSE i \in 1..Len(UpperCase) : Ch(UpperCase, i) = c)
    ELSE c

RECURSIVE to_lowercase(_)
\* str::to_lowercase (ASCII letters)
to_lowercase(s) ==
    IF Len(s) = 0 THEN "" ELSE LowerCh(Ch(s, 1)) \o to_lowercase(From(s, 2))

RECURSIVE IndexFrom(_, _, _)
\* position of the first occurrence of character c in s at or after i, 0 when
\* there is none
IndexFrom(s, c, i) ==
    IF i > Len(s) THEN 0
    ELSE IF Ch(s, i) = c THEN i
    ELSE IndexFrom(s, c, i + 1)

\* position of the first occurrence of character c in s, 0 when there is none
IndexOf(s, c) == IndexFrom(s, c, 1)

RECURSIVE LastIndexFrom(_, _, _)
\* position of the last occurrence of character c in s at or before i, 0 when
\* there is none
LastIndexFrom(s, c, i) ==
    IF i < 1 THEN 0
    ELSE IF Ch(s, i) = c THEN i
    ELSE LastIndexFrom(s, c, i - 1)

\* position of the last occurrence of character c in s, 0 when there is none
LastIndexOf(s, c) == LastIndexFrom(s, c, Len(s))

\* LinesMap: a line loses its "\n" and then one "\r" that stood before it
StripEol(l) ==
    IF Len(l) > 0 /\ Ch(l, Len(l)) = "\n"
    THEN LET m == SubSeq(l, 1, Len(l) - 1) IN
         IF Len(m) > 0 /\ Ch(m, Len(m)) = "\r" THEN SubSeq(m, 1, Len(m) - 1) ELSE m
    ELSE l

RECURSIVE lines(_)
\* str::lines: split_inclusive('\n') mapped through LinesMap; a final "\n"
\* opens no further line
lines(s) ==
    IF Len(s) = 0 THEN << >>
    ELSE LET k == IndexOf(s, "\n") IN
         IF k = 0 THEN << s >>
         ELSE << StripEol(SubSeq(s, 1, k)) >> \o lines(From(s, k + 1))

RECURSIVE join(_, _)
\* [String]::join
join(ls, sep) ==
    IF Len(ls) = 0 THEN ""
    ELSE IF Len(ls) = 1 THEN ls[1]
    ELSE ls[1] \o sep \o join(Tail(ls), sep)

RECURSIVE TokenEnd(_, _)
\* position of the last character of the run without whitespace that starts
\* at i
TokenEnd(s, i) ==
    IF i > Len(s) \/ IsWhitespace(Ch(s, i)) THEN i - 1 ELSE TokenEnd(s, i + 1)

\* length of the leading run of s without whitespace
TokenLen(s) == TokenEnd(s, 1)

RECURSIVE split_whitespace(_)
\* str::split_whitespace
split_whitespace(s) ==
    LET t == trim_start(s) IN
    IF Len(t) = 0 THEN << >>
    ELSE << SubSeq(t, 1, TokenLen(t)) >> \o split_whitespace(From(t, TokenLen(t) + 1))

Digits == "0123456789"

IsDigit(c) == \E i \in 1..Len(Digits) : Ch(Digits, i) = c

DigitVal(c) == (CHOOSE i \in 1..Len(Digits) : Ch(Digits, i) = c) - 1

RECURSIVE format_usize(_)
\* Display for usize, the "{}" of format!
format_usize(n) ==
    IF n < 10 THEN Ch(Digits, n + 1)
    ELSE format_usize(n \div 10) \o Ch(Digits, (n % 10) + 1)

RECURSIVE DigitsValue(_)
DigitsValue(s) ==
    IF Len(s) = 0 THEN 0
    ELSE 10 * DigitsValue(SubSeq(s, 1, Len(s) - 1)) + DigitVal(Ch(s, Len(s)))

\* the failure of a parse
ParseError == -1

\* parts[0].parse().unwrap_or(0): a parse that has no failure
ParseOrZero(s) ==
    LET d == IF starts_with(s, "+") THEN From(s, 2) ELSE s IN
    IF Len(d) > 0 /\ \A i \in 1..Len(d) : IsDigit(Ch(d, i))
    THEN DigitsValue(d)
    ELSE 0

\* usize::from_str: an optional "+", then one digit or more; ParseError otherwise
parse_usize(s) ==
    LET d == IF starts_with(s, "+") THEN From(s, 2) ELSE s IN
    IF Len(d) > 0 /\ \A i \in 1..Len(d) : IsDigit(Ch(d, i))
    THEN DigitsValue(d)
    ELSE ParseError

(***************************************************************************)
(* Paths.                                                                  *)
(***************************************************************************)
\* Path::file_name: what follows the last '/'
file_name(path) == From(path, LastIndexOf(path, "/") + 1)

\* Path::extension: what follows the last '.' of the file name; "" stands for
\* None (no '.', or only a leading one)
extension(path) ==
    LET f == file_name(path)
        k == LastIndexOf(f, ".")
    IN  IF k <= 1 THEN "" ELSE From(f, k + 1)

\* path.extension().map_or(false, |ext| ext == "sources")
is_deb822(path) == extension(path) = "sources"

(***************************************************************************)
(* The file system: a function from the paths that exist to their content. *)
(***************************************************************************)
\* Path::exists
exists(fsys, path) == path \in DOMAIN fsys

\* fs::write, and the effect of a successful `cp src path`
write(fsys, path, data) ==
    [q \in (DOMAIN fsys) \cup {path} |-> IF q = path THEN data ELSE fsys[q]]

\* fs::remove_file, and the effect of a successful `rm path`
remove_file(fsys, path) == [q \in (DOMAIN fsys) \ {path} |-> fsys[q]]

(***************************************************************************)
(* Record locator.                                                         *)
(***************************************************************************)
\* format!("{}:{}", file_path, line)
format_id(file_path, line) == file_path \o ":" \o format_usize(line)

\* id.splitn(2, ':') with its parts swapped: the split at the first ':', which
\* the handlers do not use
splitn2(id) ==
    LET k == IndexOf(id, ":") IN
    IF k = 0 THEN << id >>
    ELSE << From(id, k + 1), SubSeq(id, 1, k - 1) >>

\* id.rsplitn(2, ':').collect(): the part after the last ':' first, then the
\* part before it; the whole id alone when it holds no ':'
rsplitn2(id) ==
    LET k == LastIndexOf(id, ":") IN
    IF k = 0 THEN << id >>
    ELSE << From(id, k + 1), SubSeq(id, 1, k - 1) >>

(***************************************************************************)
(* parse_sources_file.                                                     *)
(***************************************************************************)
AptRepository(id, file_path, line_number, types, uris, suites, components, enabled, original_line) ==
    [id |-> id, file_path |-> file_path, line_number |-> line_number,
     types |-> types, uris |-> uris, suites |-> suites,
     components |-> components, enabled |-> enabled,
     original_line |-> original_line]

\* the accumulators of the DEB822 loop before its first line
Deb822Start ==
    [repos |-> << >>, current_enabled |-> TRUE, current_types |-> "",
     current_uris |-> "", current_suites |-> "", current_components |-> "",
     start_line |-> 0]

\* the value of a field line: line_trimmed.trim_start_matches(name).trim()
FieldValue(line_trimmed, name) == trim(trim_start_matches(line_trimmed, name))

\* the iteration as it would be if a blank line left start_line alone
Deb822StepKeepsStart(st, idx, line, file_path) ==
    LET line_trimmed == trim(line) IN
    IF line_trimmed = "" THEN
        [repos |->
            IF st.current_uris # ""
            THEN Append(st.repos,
                     AptRepository(format_id(file_path, st.start_line), file_path,
                         st.start_line, st.current_types, st.current_uris,
                         st.current_suites, st.current_components,
                         st.current_enabled,
                         st.current_types \o " " \o st.current_uris \o " "
                             \o st.current_suites \o " " \o st.current_components))
            ELSE st.repos,
         current_enabled |-> TRUE, current_types |-> "", current_uris |-> "",
         current_suites |-> "", current_components |-> "",
         start_line |-> st.start_line]
    ELSE IF starts_with(line_trimmed, "Enabled:") THEN
        LET value == to_lowercase(FieldValue(line_trimmed, "Enabled:")) IN
        [st EXCEPT !.current_enabled = (value = "yes" \/ value = "true")]
    ELSE IF starts_with(line_trimmed, "Types:") THEN
        [st EXCEPT !.current_types = FieldValue(line_trimmed, "Types:"),
                   !.start_line = IF st.start_line = 0 \/ st.current_uris = ""
                                  THEN idx ELSE st.start_line]
    ELSE IF starts_with(line_trimmed, "URIs:") THEN
        [st EXCEPT !.current_uris = FieldValue(line_trimmed, "URIs:")]
    ELSE IF starts_with(line_trimmed, "Suites:") THEN
        [st EXCEPT !.current_suites = FieldValue(line_trimmed, "Suites:")]
    ELSE IF starts_with(line_trimmed, "Components:") THEN
        [st EXCEPT !.current_components = FieldValue(line_trimmed, "Components:")]
    ELSE st

\* one iteration of the DEB822 loop, on line `line` of 0-based index idx
Deb822Step(st, idx, line, file_path) ==
    LET line_trimmed == trim(line) IN
    IF line_trimmed = "" THEN
        [repos |->
            IF st.current_uris # ""
            THEN Append(st.repos,
                     AptRepository(format_id(file_path, st.start_line), file_path,
                         st.start_line, st.current_types, st.current_uris,
                         st.current_suites, st.current_components,
                         st.current_enabled,
                         st.current_types \o " " \o st.current_uris \o " "
                             \o st.current_suites \o " " \o st.current_components))
            ELSE st.repos,
         current_enabled |-> TRUE, current_types |-> "", current_uris |-> "",
         current_suites |-> "", current_components |-> "",
         start_line |-> idx + 1]
    ELSE IF starts_with(line_trimmed, "Enabled:") THEN
        LET value == to_lowercase(FieldValue(line_trimmed, "Enabled:")) IN
        [st EXCEPT !.current_enabled = (value = "yes" \/ value = "true")]
    ELSE IF starts_with(line_trimmed, "Types:") THEN
        [st EXCEPT !.current_types = FieldValue(line_trimmed, "Types:"),
                   !.start_line = IF st.start_line = 0 \/ st.current_uris = ""
                                  THEN idx ELSE st.start_line]
    ELSE IF starts_with(line_trimmed, "URIs:") THEN
        [st EXCEPT !.current_uris = FieldValue(line_trimmed, "URIs:")]
    ELSE IF starts_with(line_trimmed, "Suites:") THEN
        [st EXCEPT !.current_suites = FieldValue(line_trimmed, "Suites:")]
    ELSE IF starts_with(line_trimmed, "Components:") THEN
        [st EXCEPT !.current_components = FieldValue(line_trimmed, "Components:")]
    ELSE st

RECURSIVE Deb822Loop(_, _, _, _)
\* for (idx, line) in content.lines().enumerate(), from the i-th line on
Deb822Loop(ls, i, st, file_path) ==
    IF i > Len(ls) THEN st
    ELSE Deb822Loop(ls, i + 1, Deb822Step(st, i - 1, ls[i], file_path), file_path)

\* the DEB822 branch: the loop, then the paragraph still open at end of file
ParseDeb822(content, file_path) ==
    LET st == Deb822Loop(lines(content), 1, Deb822Start, file_path) IN
    IF st.current_uris # ""
    THEN Append(st.repos,
             AptRepository(format_id(file_path, st.start_line), file_path,
                 st.start_line, st.current_types, st.current_uris,
                 st.current_suites, st.current_components, st.current_enabled, ""))
    ELSE st.repos

\* the iteration as it would be if a record needed four tokens
ListLineReposFourParts(idx, line, file_path) ==
    LET line_trimmed == trim(line)
        commented == starts_with(line_trimmed, "#")
        uncommented == trim(trim_start_matches(line_trimmed, "#"))
        effective_line == IF commented THEN uncommented ELSE line_trimmed
        parts == split_whitespace(effective_line)
    IN  IF line_trimmed = "" THEN << >>
        ELSE IF ~starts_with(effective_line, "deb") THEN << >>
        ELSE IF Len(parts) >= 4
        THEN << AptRepository(format_id(file_path, idx), file_path, idx,
                    parts[1], parts[2], parts[3],
                    join(SubSeq(parts, 4, Len(parts)), " "),
                    ~commented, line) >>
        ELSE << >>

\* one iteration of the traditional loop: the records line `line` adds
ListLineRepos(idx, line, file_path) ==
    LET line_trimmed == trim(line)
        commented == starts_with(line_trimmed, "#")
        uncommented == trim(trim_start_matches(line_trimmed, "#"))
        effective_line == IF commented THEN uncommented ELSE line_trimmed
        parts == split_whitespace(effective_line)
    IN  IF line_trimmed = "" THEN << >>
        ELSE IF ~starts_with(effective_line, "deb") THEN << >>
        ELSE IF Len(parts) >= 3
        THEN << AptRepository(format_id(file_path, idx), file_path, idx,
                    parts[1], parts[2], parts[3],
                    IF Len(parts) > 3 THEN join(SubSeq(parts, 4, Len(parts)), " ")
                    ELSE "",
                    ~commented, line) >>
        ELSE << >>

RECURSIVE ParseList(_, _, _)
\* the traditional branch, from the i-th line on
ParseList(ls, i, file_path) ==
    IF i > Len(ls) THEN << >>
    ELSE ListLineRepos(i - 1, ls[i], file_path) \o ParseList(ls, i + 1, file_path)

\* parse_sources_file: the records of the file at path, none when it cannot
\* be read
parse_sources_file(fsys, path) ==
    IF ~exists(fsys, path) THEN << >>
    ELSE IF is_deb822(path) THEN ParseDeb822(fsys[path], path)
    ELSE ParseList(lines(fsys[path]), 1, path)

(***************************************************************************)
(* The identifier as toggle_apt_repo and delete_apt_repo decode it.        *)
(***************************************************************************)
\* err is "" when the id decodes, and the error returned otherwise
decode_id(id) ==
    LET parts == rsplitn2(id) IN
    IF Len(parts) # 2
    THEN [err |-> "Invalid repository ID", line_number |-> 0, file_path |-> ""]
    ELSE IF parse_usize(parts[1]) = ParseError
    THEN [err |-> "Invalid line number", line_number |-> 0, file_path |-> ""]
    ELSE [err |-> "", line_number |-> parse_usize(parts[1]), file_path |-> parts[2]]

(***************************************************************************)
(* toggle_apt_repo: the new content.                                       *)
(***************************************************************************)
\* format!("Enabled: {}", if enabled { "yes" } else { "no" })
EnabledLine(enabled) == "Enabled: " \o (IF enabled THEN "yes" ELSE "no")

\* an insertion one place too far: x lands after the element at index
InsertAfter(v, index, x) ==
    IF index < Len(v)
    THEN SubSeq(v, 1, index + 1) \o << x >> \o SubSeq(v, index + 2, Len(v))
    ELSE Append(v, x)

\* Vec::insert(index, x), index 0-based
insert(v, index, x) ==
    SubSeq(v, 1, index) \o << x >> \o SubSeq(v, index + 1, Len(v))

ToggleStart ==
    [result_lines |-> << >>, in_target_stanza |-> FALSE,
     found_enabled_field |-> FALSE, stanza_start |-> 0]

\* result_lines once a paragraph closes: the synthesized line is inserted when
\* the target stanza showed no Enabled: field
CloseStanza(st, enabled) ==
    IF st.in_target_stanza /\ ~st.found_enabled_field
    THEN insert(st.result_lines, st.stanza_start, EnabledLine(enabled))
    ELSE st.result_lines

\* the iteration as it would be if a blank line did not end the target stanza
ToggleDeb822StepNoReset(st, idx, line, line_number, enabled) ==
    LET line_trimmed == trim(line) IN
    IF line_trimmed = "" THEN
        [result_lines |-> Append(CloseStanza(st, enabled), line),
         in_target_stanza |-> st.in_target_stanza,
         found_enabled_field |-> FALSE,
         stanza_start |-> st.stanza_start]
    ELSE
        LET entered == idx = line_number \/ (st.in_target_stanza /\ idx > line_number)
            in_target == IF entered THEN TRUE ELSE st.in_target_stanza
            start == IF entered /\ idx = line_number
                     THEN Len(st.result_lines) ELSE st.stanza_start
        IN  IF in_target /\ starts_with(line_trimmed, "Enabled:")
            THEN [result_lines |-> Append(st.result_lines, EnabledLine(enabled)),
                  in_target_stanza |-> in_target, found_enabled_field |-> TRUE,
                  stanza_start |-> start]
            ELSE [result_lines |-> Append(st.result_lines, line),
                  in_target_stanza |-> in_target,
                  found_enabled_field |-> st.found_enabled_field,
                  stanza_start |-> start]

\* one iteration of the DEB822 loop of toggle_apt_repo
ToggleDeb822Step(st, idx, line, line_number, enabled) ==
    LET line_trimmed == trim(line) IN
    IF line_trimmed = "" THEN
        [result_lines |-> Append(CloseStanza(st, enabled), line),
         in_target_stanza |-> FALSE, found_enabled_field |-> FALSE,
         stanza_start |-> st.stanza_start]
    ELSE
        LET entered == idx = line_number \/ (st.in_target_stanza /\ idx > line_number)
            in_target == IF entered THEN TRUE ELSE st.in_target_stanza
            start == IF entered /\ idx = line_number
                     THEN Len(st.result_lines) ELSE st.stanza_start
        IN  IF in_target /\ starts_with(line_trimmed, "Enabled:")
            THEN [result_lines |-> Append(st.result_lines, EnabledLine(enabled)),
                  in_target_stanza |-> in_target, found_enabled_field |-> TRUE,
                  stanza_start |-> start]
            ELSE [result_lines |-> Append(st.result_lines, line),
                  in_target_stanza |-> in_target,
                  found_enabled_field |-> st.found_enabled_field,
                  stanza_start |-> start]

RECURSIVE ToggleDeb822Loop(_, _, _, _, _)
ToggleDeb822Loop(ls, i, st, line_number, enabled) ==
    IF i > Len(ls) THEN st
    ELSE ToggleDeb822Loop(ls, i + 1,
             ToggleDeb822Step(st, i - 1, ls[i], line_number, enabled),
             line_number, enabled)

\* the DEB822 branch of toggle_apt_repo
ToggleDeb822(ls, line_number, enabled) ==
    join(CloseStanza(ToggleDeb822Loop(ls, 1, ToggleStart, line_number, enabled),
                     enabled), "\n")

\* the line written for the addressed line of a traditional file
ToggleListLine(line, enabled) ==
    LET line_trimmed == trim(line) IN
    IF enabled
    THEN IF starts_with(line_trimmed, "#")
         THEN trim(trim_start_matches(line_trimmed, "#"))
         ELSE line
    ELSE IF ~starts_with(line_trimmed, "#")
         THEN "# " \o line_trimmed
         ELSE line

\* the branch as it would be if it rewrote every line
ToggleListAllLines(ls, line_number, enabled) ==
    join([i \in 1..Len(ls) |-> ToggleListLine(ls[i], enabled)], "\n")

\* the traditional branch of toggle_apt_repo
ToggleList(ls, line_number, enabled) ==
    join([i \in 1..Len(ls) |->
             IF i - 1 = line_number THEN ToggleListLine(ls[i], enabled) ELSE ls[i]],
         "\n")

\* new_content of toggle_apt_repo
ToggleContent(content, path, line_number, enabled) ==
    IF is_deb822(path)
    THEN ToggleDeb822(lines(content), line_number, enabled)
    ELSE ToggleList(lines(content), line_number, enabled)

(***************************************************************************)
(* delete_apt_repo: the new content.                                       *)
(***************************************************************************)
RECURSIVE DeleteDeb822LoopKeepsBlank(_, _, _, _, _)
\* the loop as it would be if the blank line ending the stanza were kept
DeleteDeb822LoopKeepsBlank(ls, i, res, skip, line_number) ==
    IF i > Len(ls) THEN res
    ELSE IF i - 1 = line_number
    THEN DeleteDeb822LoopKeepsBlank(ls, i + 1, res, TRUE, line_number)
    ELSE IF skip /\ trim(ls[i]) # ""
    THEN DeleteDeb822LoopKeepsBlank(ls, i + 1, res, TRUE, line_number)
    ELSE DeleteDeb822LoopKeepsBlank(ls, i + 1, Append(res, ls[i]), FALSE,
                                    line_number)

RECURSIVE DeleteDeb822Loop(_, _, _, _, _)
\* the DEB822 loop of delete_apt_repo, from the i-th line on
DeleteDeb822Loop(ls, i, res, skip, line_number) ==
    IF i > Len(ls) THEN res
    ELSE IF i - 1 = line_number
    THEN DeleteDeb822Loop(ls, i + 1, res, TRUE, line_number)
    ELSE IF skip
    THEN DeleteDeb822Loop(ls, i + 1, res, trim(ls[i]) # "", line_number)
    ELSE DeleteDeb822Loop(ls, i + 1, Append(res, ls[i]), skip, line_number)

\* the traditional branch: every line but the one at line_number
DeleteList(ls, line_number) ==
    IF line_number < Len(ls)
    THEN SubSeq(ls, 1, line_number) \o SubSeq(ls, line_number + 2, Len(ls))
    ELSE ls

\* new_lines of delete_apt_repo
DeleteLines(content, path, line_number) ==
    IF is_deb822(path)
    THEN DeleteDeb822Loop(lines(content), 1, << >>, FALSE, line_number)
    ELSE DeleteList(lines(content), line_number)

(***************************************************************************)
(* The handlers.  A call ends in a new file system, the value returned and *)
(* the command handed to the elevation helper (<< >> when none was).       *)
(***************************************************************************)
BasePath == "/etc/apt/sources.list"

SourcesDir == "/etc/apt/sources.list.d"

\* std::env::temp_dir().join("apt_repo_temp")
ToggleTemp == "/tmp/apt_repo_temp"

\* the staging path of delete_apt_repo as it would be if it were that of
\* toggle_apt_repo
SharedTemp == "/tmp/apt_repo_temp"

\* std::env::temp_dir().join("apt_repo_del_temp")
DeleteTemp == "/tmp/apt_repo_del_temp"

\* what the helper writes to its standard error when it exits non-zero
HelperStderr == "Request dismissed"

\* the io::Error of a helper that could not be started
SpawnError == "No such file or directory (os error 2)"

\* how an invocation of the helper can end
HelperOutcomes == {"success", "failure", "no_spawn"}

Ok(repos) == [ok |-> TRUE, msg |-> "", repos |-> repos]

Err(msg) == [ok |-> FALSE, msg |-> msg, repos |-> << >>]

Returned(fsys, res, helper) == [fs |-> fsys, result |-> res, helper |-> helper]

\* toggle_apt_repo(id, enabled), the helper ending as `outcome`
ToggleCall(fsys, id, enabled, outcome) ==
    LET d == decode_id(id)
        new_content == ToggleContent(fsys[d.file_path], d.file_path,
                                     d.line_number, enabled)
        staged == write(fsys, ToggleTemp, new_content)
        cp == << "cp", ToggleTemp, d.file_path >>
    IN  IF d.err # "" THEN Returned(fsys, Err(d.err), << >>)
        ELSE IF ~exists(fsys, d.file_path)
        THEN Returned(fsys, Err("Repository file not found"), << >>)
        ELSE IF outcome = "no_spawn"
        THEN Returned(staged, Err(SpawnError), cp)
        ELSE IF outcome = "success"
        THEN Returned(remove_file(write(staged, d.file_path, staged[ToggleTemp]),
                                  ToggleTemp),
                      Ok(<< >>), cp)
        ELSE Returned(remove_file(staged, ToggleTemp),
                      Err("Failed to update repository: " \o HelperStderr), cp)

\* delete_apt_repo as it would be without its `rm` branch: the new content is
\* always staged and copied
DeleteCallAlwaysCopies(fsys, id, outcome) ==
    LET d == decode_id(id)
        new_content == join(DeleteLines(fsys[d.file_path], d.file_path,
                                        d.line_number), "\n")
        staged == write(fsys, DeleteTemp, new_content \o "\n")
        cp == << "cp", DeleteTemp, d.file_path >>
    IN  IF d.err # "" THEN Returned(fsys, Err(d.err), << >>)
        ELSE IF ~exists(fsys, d.file_path)
        THEN Returned(fsys, Err("Repository file not found"), << >>)
        ELSE IF outcome = "no_spawn" THEN Returned(staged, Err(SpawnError), cp)
        ELSE IF outcome = "success"
        THEN Returned(remove_file(write(staged, d.file_path, staged[DeleteTemp]),
                                  DeleteTemp),
                      Ok(<< >>), cp)
        ELSE Returned(remove_file(staged, DeleteTemp),
                 Err("Failed to update repository file: " \o HelperStderr), cp)

\* delete_apt_repo(id), the helper ending as `outcome`
DeleteCall(fsys, id, outcome) ==
    LET d == decode_id(id)
        new_content == join(DeleteLines(fsys[d.file_path], d.file_path,
                                        d.line_number), "\n")
        staged == write(fsys, DeleteTemp, new_content \o "\n")
        cp == << "cp", DeleteTemp, d.file_path >>
        rm == << "rm", d.file_path >>
    IN  IF d.err # "" THEN Returned(fsys, Err(d.err), << >>)
        ELSE IF ~exists(fsys, d.file_path)
        THEN Returned(fsys, Err("Repository file not found"), << >>)
        ELSE IF trim(new_content) = "" THEN
            IF outcome = "no_spawn" THEN Returned(fsys, Err(SpawnError), rm)
            ELSE IF outcome = "success"
            THEN Returned(remove_file(fsys, d.file_path), Ok(<< >>), rm)
            ELSE Returned(fsys,
                     Err("Failed to delete repository file: " \o HelperStderr), rm)
        ELSE
            IF outcome = "no_spawn" THEN Returned(staged, Err(SpawnError), cp)
            ELSE IF outcome = "success"
            THEN Returned(remove_file(write(staged, d.file_path, staged[DeleteTemp]),
                                      DeleteTemp),
                          Ok(<< >>), cp)
            ELSE Returned(remove_file(staged, DeleteTemp),
                     Err("Failed to update repository file: " \o HelperStderr), cp)

\* the entries of /etc/apt/sources.list.d that list_apt_repos parses
DirFiles(fsys) ==
    {p \in DOMAIN fsys :
        /\ starts_with(p, SourcesDir \o "/")
        /\ LastIndexOf(p, "/") = Len(SourcesDir) + 1
        /\ extension(p) \in {"list", "sources"}}

\* the orders in which read_dir may yield the files of S
Orderings(S) ==
    {f \in [1..Cardinality(S) -> S] : \A i, j \in 1..Cardinality(S) : f[i] = f[j] => i = j}

RECURSIVE ParseAll(_, _, _)
ParseAll(fsys, ord, i) ==
    IF i > Len(ord) THEN << >>
    ELSE parse_sources_file(fsys, ord[i]) \o ParseAll(fsys, ord, i + 1)

\* all_repos of list_apt_repos, read_dir yielding the files in the order ord
ListCall(fsys, ord) ==
    (IF exists(fsys, BasePath) THEN parse_sources_file(fsys, BasePath) ELSE << >>)
        \o ParseAll(fsys, ord, 1)

(***************************************************************************)
(* The state.  fs is the file system, result the value the last call       *)
(* returned, last the last call: its arguments, the file system it started *)
(* from, the helper command it issued and how the helper ended.  calls     *)
(* holds the calls that run at the same time, each with its position.      *)
(***************************************************************************)
Call(op, id, enabled, outcome, helper) ==
    [op |-> op, id |-> id, enabled |-> enabled,
     outcome |-> IF helper = << >> THEN "none" ELSE outcome,
     helper |-> helper, pre |-> fs]

RECURSIVE MostEnabledLines(_, _, _, _)
\* the largest number of lines beginning with Enabled: that one paragraph of
\* the lines ls holds (n counts those of the paragraph of line i, m is the
\* largest count of the paragraphs before it)
MostEnabledLines(ls, i, n, m) ==
    IF i > Len(ls) THEN IF n > m THEN n ELSE m
    ELSE IF trim(ls[i]) = ""
    THEN MostEnabledLines(ls, i + 1, 0, IF n > m THEN n ELSE m)
    ELSE IF starts_with(trim(ls[i]), "Enabled:")
    THEN MostEnabledLines(ls, i + 1, n + 1, m)
    ELSE MostEnabledLines(ls, i + 1, n, m)

list_apt_repos ==
    \E ord \in Orderings(DirFiles(fs)) :
        /\ result' = Ok(ListCall(fs, ord))
        /\ last' = Call("list", "", FALSE, "none", << >>)
        /\ UNCHANGED <<fs, loc, calls>>

toggle_apt_repo(id, enabled, outcome) ==
    LET c == ToggleCall(fs, id, enabled, outcome) IN
    /\ \A p \in DOMAIN fs : MostEnabledLines(lines(fs[p]), 1, 0, 0) <= MaxEnabledLines
    /\ fs' = c.fs
    /\ result' = c.result
    /\ last' = Call("toggle", id, enabled, outcome, c.helper)
    /\ UNCHANGED <<loc, calls>>

delete_apt_repo(id, outcome) ==
    LET c == DeleteCall(fs, id, outcome) IN
    /\ fs' = c.fs
    /\ result' = c.result
    /\ last' = Call("delete", id, FALSE, outcome, c.helper)
    /\ UNCHANGED <<loc, calls>>

(***************************************************************************)
(* Initial file systems and the identifiers a caller passes.               *)
(***************************************************************************)
SourcesPath == SourcesDir \o "/b.sources"

\* lines of a traditional file
ListLinePool == {"deb u s", "#  deb u s m", " deb u s", "# note", ""}

\* paragraphs of a DEB822 file
StanzaPool ==
    { << "Types: deb", "URIs: u" >>,
      << "Types: deb", "URIs: u", "Enabled: no" >>,
      << "Enabled: no", "Types: deb", "URIs: u" >>,
      << "# c", "Types: deb", "URIs: u" >> }

\* how the lines of a file end: the line terminator, and whether the last
\* line has one
Endings == {<< "\n", TRUE >>, << "\n", FALSE >>, << "\r\n", TRUE >>}

RECURSIVE Flatten(_)
\* the lines of a sequence of paragraphs, one empty line between two
Flatten(ps) ==
    IF Len(ps) = 0 THEN << >>
    ELSE IF Len(ps) = 1 THEN ps[1]
    ELSE ps[1] \o << "" >> \o Flatten(Tail(ps))

\* the text of the lines ls, each but the last ended by eol, and the last too
\* when final
Text(ls, eol, final) == join(ls, eol) \o (IF final THEN eol ELSE "")

ListFiles ==
    {Text(ls, e[1], e[2]) :
        ls \in UNION {[1..n -> ListLinePool] : n \in 1..MaxLines}, e \in Endings}

\* DEB822 files: up to MaxStanzas paragraphs, or one paragraph after an empty
\* first line
SourcesFiles ==
    {Text(Flatten(ps), e[1], e[2]) :
        ps \in UNION {[1..n -> StanzaPool] : n \in 1..MaxStanzas}, e \in Endings}
    \cup {Text(<< "" >> \o p, e[1], e[2]) : p \in StanzaPool, e \in Endings}

\* line numbers a caller may pass without having them from a listing
ExtraLines == {0, 9}

\* the identifiers a call may be given.  After a listing: those of the listing
\* and identifiers built from a path and any of ExtraLines.  After a toggle or
\* a delete: the identifier of that call again.
CallIds ==
    IF last.op = "list"
    THEN {result.repos[i].id : i \in 1..Len(result.repos)}
            \cup {format_id(p, n) : p \in {BasePath, SourcesPath}, n \in ExtraLines}
    ELSE IF last.op \in {"toggle", "delete"} THEN {last.id}
    ELSE {}

\* paragraphs of the DEB822 files given to the parser alone
ParseStanzaPool ==
    StanzaPool \cup
    { << "URIs: u", "Types: deb" >>,
      << "URIs: u" >>,
      << "Suites: s", "URIs: u", "Components: m" >>,
      << "# c" >>,
      << "Types: deb", "URIs: u", "URIs: v" >>,
      << "URIs: u", "URIs:" >> }

\* lines of the traditional files given to the parser alone
ParseLinePool ==
    ListLinePool \cup {"deb u", "# deb u", "##deb u s", "debug u s", "# a deb u s"}

ParseListFiles ==
    {Text(ls, e[1], e[2]) :
        ls \in UNION {[1..n -> ParseLinePool] : n \in 1..MaxLines}, e \in Endings}

ParseSourcesFiles ==
    {Text(Flatten(ps), e[1], e[2]) :
        ps \in UNION {[1..n -> ParseStanzaPool] : n \in 1..MaxStanzas}, e \in Endings}

\* paths given to the record locator
LocPaths ==
    {BasePath, SourcesPath, SourcesDir \o "/c:1.list", "/srv/apt:2/d.sources",
     "/mnt/e:7"}

NoCall ==
    [op |-> "init", id |-> "", enabled |-> FALSE,
     outcome |-> "none", helper |-> << >>, pre |-> << >>]

\* the record locator at rest
LocIdle ==
    [pc |-> "idle", path |-> "", line |-> 0, id |-> "", decoded |-> decode_id("")]

\* nothing has been called yet
Fresh == result = Ok(<< >>) /\ last = NoCall /\ calls = << >>

(***************************************************************************)
(* Spec: the handlers on a traditional file.                               *)
(***************************************************************************)
Init ==
    /\ \E c \in ListFiles : fs = write(<< >>, BasePath, c)
    /\ Fresh
    /\ loc = LocIdle

Next ==
    \/ list_apt_repos
    \/ \E id \in CallIds, enabled \in BOOLEAN, outcome \in {"success", "failure"} :
           toggle_apt_repo(id, enabled, outcome)
    \/ \E id \in CallIds, outcome \in {"success", "failure"} :
           delete_apt_repo(id, outcome)

Spec == Init /\ [][Next]_vars

(***************************************************************************)
(* SpecDeb822: the handlers on a DEB822 file.                              *)
(***************************************************************************)
InitDeb822 ==
    /\ \E c \in SourcesFiles : fs = write(<< >>, SourcesPath, c)
    /\ Fresh
    /\ loc = LocIdle

SpecDeb822 == InitDeb822 /\ [][Next]_vars

(***************************************************************************)
(* SpecParse: list_apt_repos alone, on a file of either format.            *)
(***************************************************************************)
InitParse ==
    /\ \/ \E c \in ParseListFiles : fs = write(<< >>, BasePath, c)
       \/ \E c \in ParseSourcesFiles : fs = write(<< >>, SourcesPath, c)
    /\ Fresh
    /\ loc = LocIdle

NextParse == list_apt_repos

SpecParse == InitParse /\ [][NextParse]_vars

(***************************************************************************)
(* SpecLocator: an identifier is built from a path and a line number, as   *)
(* parse_sources_file builds it, and decoded, as toggle_apt_repo and       *)
(* delete_apt_repo decode it.                                              *)
(***************************************************************************)
InitLocator ==
    /\ fs = << >>
    /\ Fresh
    /\ \E p \in LocPaths, n \in 0..MaxLineNo :
           loc = [LocIdle EXCEPT !.pc = "input", !.path = p, !.line = n]

Encode ==
    /\ loc.pc = "input"
    /\ loc' = [loc EXCEPT !.pc = "encoded", !.id = format_id(loc.path, loc.line)]
    /\ UNCHANGED <<fs, result, last, calls>>

Decode ==
    /\ loc.pc = "encoded"
    /\ loc' = [loc EXCEPT !.pc = "decoded", !.decoded = decode_id(loc.id)]
    /\ UNCHANGED <<fs, result, last, calls>>

NextLocator == Encode \/ Decode

SpecLocator == InitLocator /\ [][NextLocator]_vars

(***************************************************************************)
(* What the claims speak of.                                               *)
(***************************************************************************)
\* the last call was `op` and returned its success acknowledgment
Succeeded(op) == last.op = op /\ last.outcome = "success" /\ result.ok

\* the path and the line number the last call's identifier addresses
LastPath == decode_id(last.id).file_path

LastLine == decode_id(last.id).line_number

\* the content of the addressed file before and after the last call
PreContent == last.pre[LastPath]

PostContent == fs[LastPath]

\* the identifiers a listing of the file at path returns in file system fsys
ListedIds(fsys, path) ==
    {parse_sources_file(fsys, path)[i].id :
        i \in 1..Len(parse_sources_file(fsys, path))}

\* the last call addressed a record that a listing of the file returns
OnListedRecord == last.id \in ListedIds(last.pre, LastPath)

\* the content ends with a line terminator
EndsWithEol(content) == Len(content) > 0 /\ Ch(content, Len(content)) = "\n"

\* the content ends its lines with "\r\n"
UsesCrLf(content) ==
    \E i \in 1..(Len(content) - 1) : SubSeq(content, i, i + 1) = "\r\n"

\* the line terminator of the content
Separator(content) == IF UsesCrLf(content) THEN "\r\n" ELSE "\n"

\* the lines ls but the one of 0-based index n
Without(ls, n) ==
    IF n < Len(ls) THEN SubSeq(ls, 1, n) \o SubSeq(ls, n + 2, Len(ls)) ELSE ls

\* the lines ls with x put before the line of 0-based index n
WithLineAt(ls, n, x) == SubSeq(ls, 1, n) \o << x >> \o SubSeq(ls, n + 1, Len(ls))

(***************************************************************************)
(* C1.  Toggle round trip on a traditional file: for a record id returned  *)
(* by a listing, toggle(id, false) followed by toggle(id, true), both      *)
(* succeeding and nothing written in between, leaves the file content      *)
(* byte-identical to the original.                                         *)
(***************************************************************************)
C1_ToggleRoundTrip ==
    [][ ( /\ last.op = "toggle" /\ last.outcome = "success" /\ ~last.enabled
          /\ ~is_deb822(LastPath)
          /\ OnListedRecord
          /\ last'.op = "toggle" /\ last'.outcome = "success" /\ last'.enabled
          /\ last'.id = last.id )
        => fs'[LastPath] = PreContent ]_vars

(***************************************************************************)
(* C2.  toggle_apt_repo on a traditional file rewrites only the line at    *)
(* the decoded index: enabling strips a leading '#' and one following      *)
(* space, disabling prepends "# " to a line that is not commented; every   *)
(* other line is written back unchanged and in order, and a file that      *)
(* ended with a line terminator still ends with one ("# deb ...\n" becomes *)
(* "deb ...\n").                                                           *)
(***************************************************************************)
\* the addressed line as the claim rewrites it
ClaimedToggleLine(line, enabled) ==
    IF enabled
    THEN IF starts_with(line, "# ") THEN From(line, 3)
         ELSE IF starts_with(line, "#") THEN From(line, 2)
         ELSE line
    ELSE IF starts_with(line, "#") THEN line ELSE "# " \o line

C2_ToggleRewritesOneLine ==
    (Succeeded("toggle") /\ ~is_deb822(LastPath) /\ OnListedRecord) =>
        LET ls == lines(PreContent) IN
        /\ lines(PostContent) =
              [i \in 1..Len(ls) |->
                  IF i - 1 = LastLine THEN ClaimedToggleLine(ls[i], last.enabled)
                  ELSE ls[i]]
        /\ EndsWithEol(PreContent) => EndsWithEol(PostContent)

(***************************************************************************)
(* C8.  delete_apt_repo on a traditional file removes exactly the line at  *)
(* the decoded index; every other line is written back unchanged, in the   *)
(* same order, each ended by the file's original line separator.           *)
(***************************************************************************)
C8_DeleteKeepsSeparator ==
    (Succeeded("delete") /\ ~is_deb822(LastPath) /\ OnListedRecord
        /\ exists(fs, LastPath)) =>
        LET rest == Without(lines(PreContent), LastLine) IN
        \/ PostContent = Text(rest, Separator(PreContent), TRUE)
        \/ PostContent = Text(rest, Separator(PreContent), FALSE)

(***************************************************************************)
(* Paragraphs of a DEB822 file.  Lines are counted from 0, as the          *)
(* identifiers count them.                                                 *)
(***************************************************************************)
IsBlank(line) == trim(line) = ""

\* line n of ls is a line of a paragraph
InParagraph(ls, n) == n < Len(ls) /\ ~IsBlank(ls[n + 1])

\* the first and the last line of the paragraph that holds line n
ParaFirst(ls, n) ==
    CHOOSE a \in 0..n :
        /\ \A j \in a..n : ~IsBlank(ls[j + 1])
        /\ a = 0 \/ IsBlank(ls[a])

ParaLast(ls, n) ==
    CHOOSE b \in n..(Len(ls) - 1) :
        /\ \A j \in n..b : ~IsBlank(ls[j + 1])
        /\ b = Len(ls) - 1 \/ IsBlank(ls[b + 2])

IsEnabledLine(line) == starts_with(trim(line), "Enabled:")

\* how many of the lines a..b of ls are Enabled: lines
EnabledCount(ls, a, b) == Cardinality({j \in a..b : IsEnabledLine(ls[j + 1])})

\* the lines read back from a text written as the lines ls joined by "\n": a
\* last line that is empty is not read back
ReadBack(ls) ==
    IF Len(ls) > 0 /\ ls[Len(ls)] = "" THEN SubSeq(ls, 1, Len(ls) - 1) ELSE ls

\* the last call was a successful toggle of a record listed in a DEB822 file
Deb822Toggled ==
    /\ Succeeded("toggle") /\ is_deb822(LastPath) /\ OnListedRecord
    /\ InParagraph(lines(PreContent), LastLine)

\* the last call was a successful delete of a record listed in a DEB822 file
Deb822Deleted ==
    /\ Succeeded("delete") /\ is_deb822(LastPath) /\ OnListedRecord
    /\ InParagraph(lines(PreContent), LastLine)

(***************************************************************************)
(* C3.  On a DEB822 file whose stanzas each hold at most one Enabled: line *)
(* at first, after any sequence of listings and toggles (each toggle given *)
(* an id of a listing of the file as it is), the toggled stanza holds      *)
(* exactly one Enabled: line, whatever the order of its fields.            *)
(***************************************************************************)
C3_OneEnabledLine ==
    Deb822Toggled =>
        LET ps == lines(PostContent) IN
        EnabledCount(ps, ParaFirst(ps, LastLine), ParaLast(ps, LastLine)) = 1

(***************************************************************************)
(* C4.  Toggling a DEB822 stanza that has no Enabled: field inserts        *)
(* exactly one new line "Enabled: yes|no" and leaves every original line   *)
(* unchanged.  As claimed, the new line is the first line of the stanza,   *)
(* before comment lines and fields that precede Types:.                    *)
(***************************************************************************)
\* the toggled stanza had no Enabled: line
ToggledWithoutField ==
    /\ Deb822Toggled
    /\ LET ls == lines(PreContent) IN
       EnabledCount(ls, ParaFirst(ls, LastLine), ParaLast(ls, LastLine)) = 0

C4_InsertedAtStanzaStart ==
    ToggledWithoutField =>
        LET ls == lines(PreContent) IN
        lines(PostContent) =
            ReadBack(WithLineAt(ls, ParaFirst(ls, LastLine), EnabledLine(last.enabled)))

\* C4 as the code has it: the one new line is put immediately before the
\* record's anchor line (the line the id names), so the lines of the stanza
\* that precede the anchor stay before the new line; every original line is
\* unchanged.
C4_InsertedAtAnchor ==
    ToggledWithoutField =>
        LET ls == lines(PreContent) IN
        lines(PostContent) =
            ReadBack(WithLineAt(ls, LastLine, EnabledLine(last.enabled)))

\* a stanza without the field whose anchor is not its first line was toggled
C4_Witness ==
    /\ ToggledWithoutField
    /\ ParaFirst(lines(PreContent), LastLine) < LastLine

(***************************************************************************)
(* C5.  In a DEB822 file of several stanzas, a toggle of one stanza        *)
(* writes every line of every other stanza, and the blank lines between    *)
(* the stanzas, as they were.                                              *)
(***************************************************************************)
C5_OtherStanzasKept ==
    Deb822Toggled =>
        LET ls == lines(PreContent)
            ps == lines(PostContent)
            a == ParaFirst(ls, LastLine)
            b == ParaLast(ls, LastLine)
            after == SubSeq(ReadBack(ls), b + 2, Len(ReadBack(ls)))
        IN  /\ SubSeq(ps, 1, a) = SubSeq(ls, 1, a)
            /\ Len(ps) >= a + Len(after)
            /\ SubSeq(ps, Len(ps) - Len(after) + 1, Len(ps)) = after

\* a stanza was toggled to a new value in a file where another stanza holds
\* an Enabled: line
C5_Witness ==
    /\ Deb822Toggled
    /\ lines(PostContent) # ReadBack(lines(PreContent))
    /\ LET ls == lines(PreContent) IN
       \E j \in 0..(Len(ls) - 1) :
           /\ j < ParaFirst(ls, LastLine) \/ j > ParaLast(ls, LastLine)
           /\ IsEnabledLine(ls[j + 1])

(***************************************************************************)
(* C6.  delete_apt_repo on a DEB822 record removes exactly the lines from  *)
(* the record's anchor line through the next blank line (that blank line   *)
(* too, or through the end of the file when there is none) and writes back *)
(* every other line unchanged and in order.                                *)
(***************************************************************************)
\* the 0-based index of the first blank line after line n, the number of
\* lines when there is none
NextBlank(ls, n) ==
    IF \E j \in (n + 1)..(Len(ls) - 1) : IsBlank(ls[j + 1])
    THEN CHOOSE j \in (n + 1)..(Len(ls) - 1) :
             /\ IsBlank(ls[j + 1])
             /\ \A k \in (n + 1)..(j - 1) : ~IsBlank(ls[k + 1])
    ELSE Len(ls)

\* the lines of ls outside n .. NextBlank(ls, n)
Remaining(ls, n) ==
    SubSeq(ls, 1, n) \o SubSeq(ls, NextBlank(ls, n) + 2, Len(ls))

C6_DeleteBoundary ==
    (Deb822Deleted /\ exists(fs, LastPath)) =>
        lines(PostContent) = Remaining(lines(PreContent), LastLine)

\* a record was deleted whose anchor has lines before it and whose stanza has
\* a stanza after it
C6_Witness ==
    /\ Deb822Deleted /\ exists(fs, LastPath)
    /\ LastLine > 0
    /\ NextBlank(lines(PreContent), LastLine) + 1 < Len(lines(PreContent))

(***************************************************************************)
(* C7.  When the lines left by a delete are all whitespace,                *)
(* delete_apt_repo asks the elevation helper to remove the file and stages *)
(* no copy, so that after a successful call the file does not exist; when  *)
(* anything else is left the file is rewritten through the staged copy.    *)
(***************************************************************************)
C7_EmptyFileRemoved ==
    Deb822Deleted =>
        IF \A j \in 1..Len(Remaining(lines(PreContent), LastLine)) :
               IsBlank(Remaining(lines(PreContent), LastLine)[j])
        THEN /\ ~exists(fs, LastPath)
             /\ last.helper = << "rm", LastPath >>
             /\ ~exists(fs, DeleteTemp)
        ELSE /\ exists(fs, LastPath)
             /\ last.helper = << "cp", DeleteTemp, LastPath >>
             /\ trim(PostContent) # ""

\* the only record of a file was deleted, and the file with the empty line
\* that was left
C7_Witness ==
    /\ Deb822Deleted
    /\ ~exists(fs, LastPath)
    /\ Len(Remaining(lines(PreContent), LastLine)) > 0
    /\ last.helper = << "rm", LastPath >>

(***************************************************************************)
(* C9.  The records parse_sources_file makes of a file have pairwise       *)
(* distinct ids, and the id of each decodes to a (file_path, anchor line)  *)
(* pair that exactly one record of a second parse of the unchanged file    *)
(* carries.                                                                *)
(***************************************************************************)
C9_IdsDistinctAndStable ==
    last.op = "list" =>
        \A p \in DOMAIN fs :
            LET recs == parse_sources_file(fs, p)
                again == parse_sources_file(fs, p)
            IN  /\ result.repos = recs
                /\ \A i, j \in 1..Len(recs) : recs[i].id = recs[j].id => i = j
                /\ \A i \in 1..Len(recs) :
                       LET d == decode_id(recs[i].id) IN
                       /\ d.err = ""
                       /\ Cardinality({k \in 1..Len(again) :
                              /\ again[k].file_path = d.file_path
                              /\ again[k].line_number = d.line_number}) = 1

\* a DEB822 file was listed that holds two records, the second of a stanza
\* without a Types: field
C9_Witness ==
    /\ last.op = "list"
    /\ Len(result.repos) = 2
    /\ is_deb822(result.repos[2].file_path)
    /\ result.repos[2].types = ""
    /\ result.repos[2].line_number > 0

(***************************************************************************)
(* C10.  The id "{path}:{line}" decodes, split once from the right on ':', *)
(* to the same (path, line), for every line number and every path, paths   *)
(* that hold ':' themselves included.                                      *)
(***************************************************************************)
C10_IdRoundTrip ==
    loc.pc = "decoded" =>
        /\ loc.decoded.err = ""
        /\ loc.decoded.file_path = loc.path
        /\ loc.decoded.line_number = loc.line

\* an id was decoded whose path holds a ':' and whose line number has three
\* digits
C10_Witness ==
    /\ loc.pc = "decoded"
    /\ IndexOf(loc.path, ":") > 0
    /\ loc.line >= 100

(***************************************************************************)
(* SpecIds: toggle_apt_repo and delete_apt_repo given identifiers of every *)
(* shape, on a traditional file of one line.                               *)
(***************************************************************************)
\* identifiers a caller may pass: well-formed ones, and ones without ':',
\* without a path, without a line number, or with a line part that is no
\* number
IdPool ==
    { "nocolon", ":", ":0", "/nofile:0",
      BasePath \o ":", BasePath \o ":x", BasePath \o ":-1", BasePath \o ":1.5",
      BasePath \o ": 0", BasePath \o ":+0", BasePath \o ":0", BasePath \o ":7" }

InitIds ==
    /\ \E l \in ListLinePool : fs = write(<< >>, BasePath, Text(<< l >>, "\n", TRUE))
    /\ Fresh
    /\ loc = LocIdle

NextIds ==
    \/ \E id \in IdPool, enabled \in BOOLEAN, outcome \in {"success", "failure"} :
           toggle_apt_repo(id, enabled, outcome)
    \/ \E id \in IdPool, outcome \in {"success", "failure"} :
           delete_apt_repo(id, outcome)

SpecIds == InitIds /\ [][NextIds]_vars

(***************************************************************************)
(* C11.  Decoding an id in toggle_apt_repo / delete_apt_repo fails with an *)
(* invalid-format error whenever the id holds no ':', has an empty path    *)
(* part (":5"), has an empty line part ("path:"), or has a line part that  *)
(* is not an unsigned integer; in all these cases no file is written and   *)
(* the elevation helper is not called.                                     *)
(***************************************************************************)
\* the part of the id after its last ':' and the part before it
LinePart(id) == From(id, LastIndexOf(id, ":") + 1)

PathPart(id) == SubSeq(id, 1, LastIndexOf(id, ":") - 1)

HasColon(id) == \E i \in 1..Len(id) : Ch(id, i) = ":"

AllDigits(s) == Len(s) > 0 /\ \A i \in 1..Len(s) : IsDigit(Ch(s, i))

\* the errors that report an identifier of the wrong format
InvalidFormat == {"Invalid repository ID", "Invalid line number"}

\* the last call was a toggle or a delete that failed on the format of its
\* id, leaving the file system as it was and the helper alone
RejectedAsInvalid ==
    /\ ~result.ok /\ result.msg \in InvalidFormat
    /\ fs = last.pre
    /\ last.helper = << >>

MutationCalled == last.op \in {"toggle", "delete"}

C11_MalformedIdRejected ==
    ( /\ MutationCalled
      /\ \/ ~HasColon(last.id)
         \/ PathPart(last.id) = ""
         \/ ~AllDigits(LinePart(last.id)) )
    => RejectedAsInvalid

\* C11 as the code has it: an id without ':' fails with "Invalid repository
\* ID"; an id whose line part is empty or is not a run of digits after an
\* optional '+' fails with "Invalid line number"; an id whose path part is
\* empty and whose line part is a number fails with "Repository file not
\* found".  In all these cases no file is written and the helper is not
\* called.
C11_MalformedIdFails ==
    MutationCalled =>
        LET id == last.id
            digits == IF starts_with(LinePart(id), "+")
                      THEN From(LinePart(id), 2) ELSE LinePart(id)
        IN  /\ ~HasColon(id) => (RejectedAsInvalid /\ result.msg = "Invalid repository ID")
            /\ (HasColon(id) /\ ~AllDigits(digits)) =>
                   (RejectedAsInvalid /\ result.msg = "Invalid line number")
            /\ (HasColon(id) /\ AllDigits(digits) /\ PathPart(id) = "") =>
                   /\ ~result.ok /\ result.msg = "Repository file not found"
                   /\ fs = last.pre /\ last.helper = << >>

\* an id with an empty path part and a number was given
C11_Witness ==
    /\ MutationCalled
    /\ PathPart(last.id) = "" /\ AllDigits(LinePart(last.id))
    /\ ~result.ok

(***************************************************************************)
(* add_apt_repo.                                                           *)
(***************************************************************************)
RECURSIVE replace(_, _, _)
\* str::replace: every occurrence of `from`, left to right, becomes `to`
replace(s, from, to) ==
    IF Len(s) = 0 THEN ""
    ELSE IF starts_with(s, from) THEN to \o replace(From(s, Len(from) + 1), from, to)
    ELSE Ch(s, 1) \o replace(From(s, 2), from, to)

\* char::is_alphanumeric (ASCII)
is_alphanumeric(c) ==
    \/ IsDigit(c)
    \/ \E i \in 1..Len(LowerCase) : Ch(LowerCase, i) = c \/ Ch(UpperCase, i) = c

RECURSIVE KeepNameChars(_)
\* .chars().filter(|c| c.is_alphanumeric() || *c == '-').collect()
KeepNameChars(s) ==
    IF Len(s) = 0 THEN ""
    ELSE (IF is_alphanumeric(Ch(s, 1)) \/ Ch(s, 1) = "-" THEN Ch(s, 1) ELSE "")
             \o KeepNameChars(From(s, 2))

\* the file name stem add_apt_repo derives from the URI
sanitized(uri) ==
    KeepNameChars(replace(replace(replace(replace(uri, "http://", ""),
                                          "https://", ""), "/", "-"), ".", "-"))

AddTemp == "/tmp/apt_repo_add_temp"

\* the file name add_apt_repo chooses for the URI, the clock reading `now`
\* milliseconds
AddFileName(fsys, uri, now) ==
    IF exists(fsys, SourcesDir \o "/" \o sanitized(uri) \o ".list")
    THEN sanitized(uri) \o "_" \o format_usize(now) \o ".list"
    ELSE sanitized(uri) \o ".list"

\* the value as it would be if the exit status were not looked at
AddResultAlwaysOk(outcome, filename) == Ok(<< filename >>)

\* the value add_apt_repo returns once the helper has ended
AddResult(outcome, filename) ==
    IF outcome = "success" THEN Ok(<< filename >>)
    ELSE Err("Failed to add repository: " \o HelperStderr)

\* the validation as it would be if the tokens were not counted
AddErrorPrefixOnly(trimmed) ==
    IF ~starts_with(trimmed, "deb ") /\ ~starts_with(trimmed, "deb-src ")
    THEN "Repository line must start with 'deb' or 'deb-src'"
    ELSE ""

\* the error of the validation of the trimmed line, "" when it passes
AddError(trimmed) ==
    IF ~starts_with(trimmed, "deb ") /\ ~starts_with(trimmed, "deb-src ")
    THEN "Repository line must start with 'deb' or 'deb-src'"
    ELSE IF Len(split_whitespace(trimmed)) < 3
    THEN "Invalid repository format. Expected: deb URI suite [components...]"
    ELSE ""

\* add_apt_repo(repo_line), the clock reading `now` and the helper ending as
\* `outcome`
AddCall(fsys, repo_line, now, outcome) ==
    LET trimmed == trim(repo_line)
        parts == split_whitespace(trimmed)
        filename == AddFileName(fsys, parts[2], now)
        target == SourcesDir \o "/" \o filename
        staged == write(fsys, AddTemp, trimmed \o "\n")
        cp == << "cp", AddTemp, target >>
    IN  IF AddError(trimmed) # ""
        THEN Returned(fsys, Err(AddError(trimmed)), << >>)
        ELSE IF outcome = "no_spawn" THEN Returned(staged, Err(SpawnError), cp)
        ELSE IF outcome = "success"
        THEN Returned(remove_file(write(staged, target, staged[AddTemp]), AddTemp),
                      AddResult(outcome, filename), cp)
        ELSE Returned(remove_file(staged, AddTemp), AddResult(outcome, filename), cp)

\* the call recorded in `last` for an add
AddCalled(repo_line, now, outcome, helper) ==
    [op |-> "add", id |-> "", enabled |-> FALSE,
     outcome |-> IF helper = << >> THEN "none" ELSE outcome,
     helper |-> helper, pre |-> fs, repo_line |-> repo_line, now |-> now]

add_apt_repo(repo_line, now, outcome) ==
    LET c == AddCall(fs, repo_line, now, outcome) IN
    /\ fs' = c.fs
    /\ result' = c.result
    /\ last' = AddCalled(repo_line, now, outcome, c.helper)
    /\ UNCHANGED <<loc, calls>>

(***************************************************************************)
(* SpecAdd: add_apt_repo alone.                                            *)
(***************************************************************************)
\* add_apt_repo is no longer called once /etc/apt/sources.list.d holds more
\* files than this
MaxDirFiles == 2

\* the readings of the clock
Clock == {1, 2}

\* candidate lines given to add_apt_repo
AddLinePool ==
    { "deb http://a.b/c s", " deb-src https://a.b/c t m\n", "deb u s",
      "deb u", "deb-src u", "debx u s", "deb\tu s", "" }

InitAdd ==
    /\ \/ fs = << >>
       \/ fs = write(<< >>, BasePath, "deb u s\n")
    /\ Fresh
    /\ loc = LocIdle

NextAdd ==
    \E repo_line \in AddLinePool, now \in Clock, outcome \in {"success", "failure"} :
        /\ Cardinality(DirFiles(fs)) <= MaxDirFiles
        /\ add_apt_repo(repo_line, now, outcome)

SpecAdd == InitAdd /\ [][NextAdd]_vars

(***************************************************************************)
(* C15.  add_apt_repo rejects with an error every candidate line that,     *)
(* trimmed, does not begin with "deb " or "deb-src " or has fewer than 3   *)
(* whitespace-separated tokens; it then writes no temporary file, calls no *)
(* helper and creates no file.                                             *)
(***************************************************************************)
\* the candidate line is not one add_apt_repo accepts
BadCandidate(repo_line) ==
    \/ ~starts_with(trim(repo_line), "deb ") /\ ~starts_with(trim(repo_line), "deb-src ")
    \/ Len(split_whitespace(repo_line)) < 3

C15_BadLineRejected ==
    (last.op = "add" /\ BadCandidate(last.repo_line)) =>
        /\ ~result.ok
        /\ fs = last.pre
        /\ last.helper = << >>

\* a line with the right prefix and two tokens was rejected
C15_Witness ==
    /\ last.op = "add"
    /\ starts_with(trim(last.repo_line), "deb ")
    /\ Len(split_whitespace(last.repo_line)) = 2
    /\ ~result.ok

(***************************************************************************)
(* C16.  A successful add_apt_repo creates a new .list file, at a path     *)
(* that did not exist before the call, whose content is the (trimmed)      *)
(* input line followed by one newline; no file that existed before is      *)
(* overwritten or changed.                                                 *)
(***************************************************************************)
C16_AddCreatesNewFile ==
    (last.op = "add" /\ last.outcome = "success" /\ result.ok) =>
        LET target == SourcesDir \o "/" \o result.repos[1] IN
        /\ extension(target) = "list"
        /\ ~exists(last.pre, target)
        /\ exists(fs, target) /\ fs[target] = trim(last.repo_line) \o "\n"
        /\ \A q \in DOMAIN last.pre : exists(fs, q) /\ fs[q] = last.pre[q]

(***************************************************************************)
(* SpecHelper: the three privileged writes, the elevation helper           *)
(* succeeding, exiting non-zero or failing to start.                       *)
(***************************************************************************)
\* the record every toggle and delete of SpecHelper addresses
HelperIds == {format_id(BasePath, 0), format_id(SourcesPath, 0)}

InitHelper ==
    /\ \/ \E l \in ListLinePool : fs = write(<< >>, BasePath, Text(<< l, "deb u s" >>, "\n", TRUE))
       \/ \E p \in StanzaPool : fs = write(<< >>, SourcesPath, Text(p, "\n", TRUE))
    /\ Fresh
    /\ loc = LocIdle

NextHelper ==
    \/ \E id \in HelperIds, enabled \in BOOLEAN, outcome \in HelperOutcomes :
           /\ exists(fs, decode_id(id).file_path)
           /\ toggle_apt_repo(id, enabled, outcome)
    \/ \E id \in HelperIds, outcome \in HelperOutcomes :
           /\ exists(fs, decode_id(id).file_path)
           /\ delete_apt_repo(id, outcome)
    \/ \E outcome \in HelperOutcomes :
           /\ Cardinality(DirFiles(fs)) < MaxDirFiles
           /\ add_apt_repo("deb u s", 1, outcome)

SpecHelper == InitHelper /\ [][NextHelper]_vars

\* the last call handed a command to the elevation helper
HelperCalled == last.op \in {"toggle", "add", "delete"} /\ last.helper # << >>

(***************************************************************************)
(* C12.  For every privileged write (toggle, add, delete with rewrite),    *)
(* once the temporary file has been written the call does not return       *)
(* while that file exists: it is deleted whether the helper succeeded,     *)
(* exited non-zero or could not be started.                                *)
(***************************************************************************)
C12_TempFileRemoved ==
    (HelperCalled /\ last.helper[1] = "cp") => ~exists(fs, last.helper[2])

(***************************************************************************)
(* C13.  A mutating call (toggle, add, delete) returns the success         *)
(* acknowledgment if and only if the helper exited with status zero; a     *)
(* non-zero exit yields an error that carries the helper's standard-error  *)
(* text, and the target file is then left with its previous content.       *)
(***************************************************************************)
\* s ends with t
ends_with(s, t) == Len(s) >= Len(t) /\ From(s, Len(s) - Len(t) + 1) = t

\* the file the helper was asked to write or remove
HelperTarget == last.helper[Len(last.helper)]

C13_SuccessIffExitZero ==
    last.op \in {"toggle", "add", "delete"} =>
        /\ result.ok <=> last.outcome = "success"
        /\ last.outcome = "failure" =>
               /\ ends_with(result.msg, HelperStderr)
               /\ exists(fs, HelperTarget) <=> exists(last.pre, HelperTarget)
               /\ exists(fs, HelperTarget) => fs[HelperTarget] = last.pre[HelperTarget]

\* the helper exited non-zero on a copy that would have changed its target
C13_Witness ==
    /\ HelperCalled /\ last.outcome = "failure" /\ ~result.ok
    /\ last.op = "toggle"
    /\ ToggleContent(last.pre[HelperTarget], HelperTarget, LastLine, last.enabled)
           # last.pre[HelperTarget]

(***************************************************************************)
(* C14.  toggle_apt_repo and delete_apt_repo return a not-found error, and *)
(* never the success acknowledgment, when the target file does not exist   *)
(* or when the decoded line number addresses no record of the file (an     *)
(* index past the end, a blank line, a line that is no repository record). *)
(***************************************************************************)
C14_NoRecordNotFound ==
    ( /\ MutationCalled
      /\ decode_id(last.id).err = ""
      /\ ~exists(last.pre, LastPath) \/ ~OnListedRecord )
    => (~result.ok /\ result.msg = "Repository file not found")

(***************************************************************************)
(* Calls that run at the same time.  A call is at "read" (decode the id,   *)
(* test the path, read the file and compute the new content), "create"     *)
(* and "write" (fs::write: the temporary file is created empty, then       *)
(* filled), "install" (the helper runs), "cleanup" (the temporary file is  *)
(* removed and the call returns) or "done".  staged, installed hold no     *)
(* element or one content.                                                 *)
(***************************************************************************)
ConcurrentCall(op, id, enabled, repo_line, now) ==
    [op |-> op, id |-> id, enabled |-> enabled, repo_line |-> repo_line,
     now |-> now, pc |-> "read", target |-> "", temp |-> "", helper |-> "",
     staged |-> << >>, installed |-> << >>, exit_ok |-> FALSE,
     result |-> Ok(<< >>)]

\* the call c returns res
Return(c, res) == [c EXCEPT !.pc = "done", !.result = res]

\* the staging as it would be if every call staged through the temporary
\* file of toggle_apt_repo
StageThroughOneFile(c, target, temp, new_content) ==
    [c EXCEPT !.pc = "create", !.target = target, !.temp = ToggleTemp,
              !.helper = "cp", !.staged = << new_content >>]

\* the call c goes on to stage new_content for target through temp
Stage(c, target, temp, new_content) ==
    [c EXCEPT !.pc = "create", !.target = target, !.temp = temp,
              !.helper = "cp", !.staged = << new_content >>]

\* the steps of call c that precede the staging, in file system fsys
ReadStep(fsys, c) ==
    IF c.op = "add" THEN
        LET trimmed == trim(c.repo_line)
            parts == split_whitespace(trimmed)
        IN  IF AddError(trimmed) # "" THEN Return(c, Err(AddError(trimmed)))
            ELSE Stage(c, SourcesDir \o "/" \o AddFileName(fsys, parts[2], c.now),
                       AddTemp, trimmed \o "\n")
    ELSE
        LET d == decode_id(c.id)
            new_content == join(DeleteLines(fsys[d.file_path], d.file_path,
                                            d.line_number), "\n")
        IN  IF d.err # "" THEN Return(c, Err(d.err))
            ELSE IF ~exists(fsys, d.file_path)
            THEN Return(c, Err("Repository file not found"))
            ELSE IF c.op = "toggle"
            THEN Stage(c, d.file_path, ToggleTemp,
                       ToggleContent(fsys[d.file_path], d.file_path,
                                     d.line_number, c.enabled))
            ELSE IF trim(new_content) = ""
            THEN [c EXCEPT !.pc = "install", !.target = d.file_path, !.helper = "rm"]
            ELSE Stage(c, d.file_path, DeleteTemp, new_content \o "\n")

\* the error a call returns when its helper exited non-zero
HelperFailed(c) ==
    IF c.op = "toggle" THEN Err("Failed to update repository: " \o HelperStderr)
    ELSE IF c.op = "add" THEN Err("Failed to add repository: " \o HelperStderr)
    ELSE IF c.helper = "rm"
    THEN Err("Failed to delete repository file: " \o HelperStderr)
    ELSE Err("Failed to update repository file: " \o HelperStderr)

\* the success acknowledgment of a call
Acknowledged(c) ==
    IF c.op = "add" THEN Ok(<< file_name(c.target) >>) ELSE Ok(<< >>)

Read(i) ==
    /\ calls[i].pc = "read"
    /\ calls' = [calls EXCEPT ![i] = ReadStep(fs, calls[i])]
    /\ UNCHANGED <<fs, result, last, loc>>

\* fs::write opens the temporary file, which is then empty
Create(i) ==
    /\ calls[i].pc = "create"
    /\ fs' = write(fs, calls[i].temp, "")
    /\ calls' = [calls EXCEPT ![i].pc = "write"]
    /\ UNCHANGED <<result, last, loc>>

\* fs::write fills the temporary file, if it is still there
Write(i) ==
    /\ calls[i].pc = "write"
    /\ fs' = IF exists(fs, calls[i].temp)
             THEN write(fs, calls[i].temp, calls[i].staged[1]) ELSE fs
    /\ calls' = [calls EXCEPT ![i].pc = "install"]
    /\ UNCHANGED <<result, last, loc>>

\* the helper runs `cp temp target` or `rm target`; it exits non-zero when
\* the file it is to copy or remove does not exist
Install(i) ==
    LET c == calls[i] IN
    /\ c.pc = "install"
    /\ IF c.helper = "rm"
       THEN /\ fs' = IF exists(fs, c.target) THEN remove_file(fs, c.target) ELSE fs
            /\ calls' = [calls EXCEPT ![i] =
                   IF exists(fs, c.target)
                   THEN Return([c EXCEPT !.exit_ok = TRUE], Acknowledged(c))
                   ELSE Return(c, HelperFailed(c))]
       ELSE /\ fs' = IF exists(fs, c.temp) THEN write(fs, c.target, fs[c.temp]) ELSE fs
            /\ calls' = [calls EXCEPT ![i] =
                   IF exists(fs, c.temp)
                   THEN [c EXCEPT !.pc = "cleanup", !.exit_ok = TRUE,
                                  !.installed = << fs[c.temp] >>]
                   ELSE [c EXCEPT !.pc = "cleanup"]]
    /\ UNCHANGED <<result, last, loc>>

\* let _ = fs::remove_file(&temp_file), then the return
Cleanup(i) ==
    LET c == calls[i] IN
    /\ c.pc = "cleanup"
    /\ fs' = IF exists(fs, c.temp) THEN remove_file(fs, c.temp) ELSE fs
    /\ calls' = [calls EXCEPT ![i] =
           Return(c, IF c.exit_ok THEN Acknowledged(c) ELSE HelperFailed(c))]
    /\ UNCHANGED <<result, last, loc>>

(***************************************************************************)
(* SpecRace: two calls at the same time.                                   *)
(***************************************************************************)
RaceCalls ==
    { ConcurrentCall("toggle", format_id(BasePath, n), FALSE, "", 0) : n \in {0, 1} }
    \cup { ConcurrentCall("delete", format_id(BasePath, n), FALSE, "", 0) : n \in {0, 1} }
    \cup { ConcurrentCall("add", "", FALSE, l, 1) : l \in {"deb u s", "deb http://a.b/c s"} }

RaceFiles == {"deb u s\ndeb v s\n", "deb u s\n"}

InitRace ==
    /\ \E c \in RaceFiles : fs = write(<< >>, BasePath, c)
    /\ result = Ok(<< >>) /\ last = NoCall /\ loc = LocIdle
    /\ \E a, b \in RaceCalls : calls = << a, b >>

NextRace ==
    \E i \in 1..2 : Read(i) \/ Create(i) \/ Write(i) \/ Install(i) \/ Cleanup(i)

SpecRace == InitRace /\ [][NextRace]_vars

(***************************************************************************)
(* C17.  When two mutation calls (toggle / delete) on the same file        *)
(* interleave at any point of their read, stage and install steps, the     *)
(* final content of the file is the complete content computed by one of    *)
(* the two calls, never a mixture or anything else.                        *)
(***************************************************************************)
\* both calls have returned
AllDone == calls # << >> /\ \A i \in 1..2 : calls[i].pc = "done"

\* both calls are toggles or deletes (of records of the one file)
TwoMutations == calls # << >> /\ \A i \in 1..2 : calls[i].op \in {"toggle", "delete"}

\* what call c computed for its file: no element when the file is to be
\* removed, else the new content
Computed(c) == IF c.helper = "rm" THEN << >> ELSE c.staged

\* the file the two mutations address, in the same form
FinalFile == IF exists(fs, BasePath) THEN << fs[BasePath] >> ELSE << >>

C18_InstallsOwnContent ==
    (calls # << >> /\ calls[1].op # calls[2].op) =>
        \A i \in 1..2 :
            /\ calls[i].pc \in {"cleanup", "done"} /\ calls[i].helper = "cp"
                   => (calls[i].exit_ok /\ calls[i].installed = calls[i].staged)
            /\ calls[1].temp # "" => calls[1].temp # calls[2].temp

\* calls of two kinds have both installed what they staged
C18_Witness ==
    /\ AllDone /\ calls[1].op # calls[2].op
    /\ \A i \in 1..2 : calls[i].helper = "cp" /\ calls[i].installed = calls[i].staged
    /\ calls[1].op = "toggle" /\ calls[2].op = "delete"

(***************************************************************************)
(* Startup entries on macOS.  A file of ~/Library/LaunchAgents is a        *)
(* property list: [kind |-> "dict", dict |-> d] with d a function from     *)
(* keys to values, or a property list of another kind, or a file that is   *)
(* no property list.  A value is a record tagged with its type.  The       *)
(* directory itself is an entry of the file system.                        *)
(***************************************************************************)
\* launch_agents_dir(), for a home directory /Users/u
LaunchAgentsDir == "/Users/u/Library/LaunchAgents"

Directory == [kind |-> "directory"]

Boolean(b) == [type |-> "boolean", boolean |-> b]

String(str) == [type |-> "string", string |-> str]

Array(vs) == [type |-> "array", array |-> vs]

Dictionary(d) == [kind |-> "dict", dict |-> d]

\* dict.insert(key, value)
dict_insert(d, key, value) ==
    [k \in (DOMAIN d) \cup {key} |-> IF k = key THEN value ELSE d[k]]

\* dict.get(key).and_then(|v| v.as_boolean()).unwrap_or(false)
BooleanOrFalse(d, key) ==
    IF key \in DOMAIN d /\ d[key].type = "boolean" THEN d[key].boolean ELSE FALSE

\* dict.get(key).and_then(|v| v.as_string()): << >> stands for None
StringOf(d, key) ==
    IF key \in DOMAIN d /\ d[key].type = "string" THEN << d[key].string >> ELSE << >>

\* dict.get("ProgramArguments")...first()...as_string()
FirstArgument(d) ==
    IF /\ "ProgramArguments" \in DOMAIN d
       /\ d["ProgramArguments"].type = "array"
       /\ Len(d["ProgramArguments"].array) > 0
       /\ d["ProgramArguments"].array[1].type = "string"
    THEN << d["ProgramArguments"].array[1].string >>
    ELSE << >>

\* the entries read_dir yields for LaunchAgentsDir
AgentFiles(fsys) ==
    {p \in DOMAIN fsys :
        /\ starts_with(p, LaunchAgentsDir \o "/")
        /\ LastIndexOf(p, "/") = Len(LaunchAgentsDir) + 1}

\* what list_startup_apps pushes for the entry at path: nothing for a file
\* that is not a .plist dictionary
StartupApp(fsys, path) ==
    IF extension(path) # "plist" \/ fsys[path].kind # "dict" THEN << >>
    ELSE << [file |-> file_name(path),
             name |-> StringOf(fsys[path].dict, "Label"),
             exec |-> FirstArgument(fsys[path].dict),
             enabled |-> ~BooleanOrFalse(fsys[path].dict, "Disabled"),
             file_path |-> path] >>

RECURSIVE StartupApps(_, _, _)
StartupApps(fsys, ord, i) ==
    IF i > Len(ord) THEN << >>
    ELSE StartupApp(fsys, ord[i]) \o StartupApps(fsys, ord, i + 1)

NoHome == Err("Cannot determine home directory")

\* list_startup_apps, read_dir yielding the entries in the order ord
ListStartup(fsys, home, ord) ==
    IF ~home THEN NoHome
    ELSE IF ~exists(fsys, LaunchAgentsDir) THEN Ok(<< >>)
    ELSE Ok(StartupApps(fsys, ord, 1))

\* "com.user." and the sanitized name
AgentLabel(name) == "com.user." \o KeepNameChars(replace(to_lowercase(name), " ", "-"))

\* the file name add_startup_app chooses, the clock reading `now`
AgentFileName(fsys, name, now) ==
    IF exists(fsys, LaunchAgentsDir \o "/" \o AgentLabel(name) \o ".plist")
    THEN AgentLabel(name) \o "-" \o format_usize(now) \o ".plist"
    ELSE AgentLabel(name) \o ".plist"

\* add_startup_app(name, exec); launchctl ends as `loaded`, which the code
\* does not look at
AddStartup(fsys, home, name, exec, now, loaded) ==
    LET filename == AgentFileName(fsys, name, now)
        dict == dict_insert(dict_insert(dict_insert(<< >>,
                    "Label", String(AgentLabel(name))),
                    "ProgramArguments", Array(<< String(exec) >>)),
                    "RunAtLoad", Boolean(TRUE))
    IN  IF ~home THEN [fs |-> fsys, result |-> NoHome]
        ELSE [fs |-> write(write(fsys, LaunchAgentsDir, Directory),
                           LaunchAgentsDir \o "/" \o filename, Dictionary(dict)),
              result |-> Ok(<< filename >>)]

\* edit_startup_app(file, name, exec); launchctl unload ends as `unloaded`
\* and launchctl load as `loaded`
EditStartup(fsys, home, file, name, exec, unloaded, loaded) ==
    LET filepath == LaunchAgentsDir \o "/" \o file IN
    IF ~home THEN [fs |-> fsys, result |-> NoHome]
    ELSE IF ~exists(fsys, filepath)
    THEN [fs |-> fsys, result |-> Err("Plist file not found")]
    ELSE IF fsys[filepath].kind = "garbage"
    THEN [fs |-> fsys, result |-> Err("Failed to read plist: invalid data")]
    ELSE IF fsys[filepath].kind # "dict"
    THEN [fs |-> fsys, result |-> Err("Unexpected plist format")]
    ELSE [fs |-> write(fsys, filepath,
                     Dictionary(dict_insert(dict_insert(fsys[filepath].dict,
                         "Label", String(AgentLabel(name))),
                         "ProgramArguments", Array(<< String(exec) >>)))),
          result |-> Ok(<< >>)]

\* delete_startup_app as it would be if a failed unload were returned
DeleteStartupStrict(fsys, home, file, unloaded) ==
    LET filepath == LaunchAgentsDir \o "/" \o file IN
    IF ~home THEN [fs |-> fsys, result |-> NoHome]
    ELSE IF ~exists(fsys, filepath)
    THEN [fs |-> fsys, result |-> Err("Plist file not found")]
    ELSE IF unloaded # "success"
    THEN [fs |-> fsys, result |-> Err("launchctl failed: " \o HelperStderr)]
    ELSE [fs |-> remove_file(fsys, filepath), result |-> Ok(<< >>)]

\* delete_startup_app(file); launchctl unload ends as `unloaded`
DeleteStartup(fsys, home, file, unloaded) ==
    LET filepath == LaunchAgentsDir \o "/" \o file IN
    IF ~home THEN [fs |-> fsys, result |-> NoHome]
    ELSE IF ~exists(fsys, filepath)
    THEN [fs |-> fsys, result |-> Err("Plist file not found")]
    ELSE [fs |-> remove_file(fsys, filepath), result |-> Ok(<< >>)]

\* toggle_startup_app(file, enabled); launchctl load -w / unload -w ends as
\* `outcome`
ToggleStartup(fsys, home, file, enabled, outcome) ==
    LET filepath == LaunchAgentsDir \o "/" \o file IN
    IF ~home THEN [fs |-> fsys, result |-> NoHome]
    ELSE IF ~exists(fsys, filepath)
    THEN [fs |-> fsys, result |-> Err("Plist file not found")]
    ELSE IF outcome = "no_spawn" THEN [fs |-> fsys, result |-> Err(SpawnError)]
    ELSE IF outcome = "success" THEN [fs |-> fsys, result |-> Ok(<< >>)]
    ELSE [fs |-> fsys, result |-> Err("launchctl failed: " \o HelperStderr)]

\* what the startup handlers leave in `last`
StartupCalled(op, home, file, name, exec, enabled, now, launchctl) ==
    [op |-> op, home |-> home, file |-> file, name |-> name, exec |-> exec,
     enabled |-> enabled, now |-> now, launchctl |-> launchctl, pre |-> fs]

list_startup_apps(home) ==
    /\ \E ord \in Orderings(AgentFiles(fs)) : result' = ListStartup(fs, home, ord)
    /\ last' = StartupCalled("list", home, "", "", "", FALSE, 0, << >>)
    /\ UNCHANGED <<fs, loc, calls>>

add_startup_app(home, name, exec, now, loaded) ==
    /\ fs' = AddStartup(fs, home, name, exec, now, loaded).fs
    /\ result' = AddStartup(fs, home, name, exec, now, loaded).result
    /\ last' = StartupCalled("add", home, "", name, exec, FALSE, now, << loaded >>)
    /\ UNCHANGED <<loc, calls>>

edit_startup_app(home, file, name, exec, unloaded, loaded) ==
    /\ fs' = EditStartup(fs, home, file, name, exec, unloaded, loaded).fs
    /\ result' = EditStartup(fs, home, file, name, exec, unloaded, loaded).result
    /\ last' = StartupCalled("edit", home, file, name, exec, FALSE, 0,
                             << unloaded, loaded >>)
    /\ UNCHANGED <<loc, calls>>

delete_startup_app(home, file, unloaded) ==
    /\ fs' = DeleteStartup(fs, home, file, unloaded).fs
    /\ result' = DeleteStartup(fs, home, file, unloaded).result
    /\ last' = StartupCalled("delete", home, file, "", "", FALSE, 0, << unloaded >>)
    /\ UNCHANGED <<loc, calls>>

toggle_startup_app(home, file, enabled, outcome) ==
    /\ fs' = ToggleStartup(fs, home, file, enabled, outcome).fs
    /\ result' = ToggleStartup(fs, home, file, enabled, outcome).result
    /\ last' = StartupCalled("toggle", home, file, "", "", enabled, 0, << outcome >>)
    /\ UNCHANGED <<loc, calls>>

(***************************************************************************)
(* SpecStartup: the startup handlers on a LaunchAgents directory.          *)
(***************************************************************************)
\* the add handler is called while the directory holds fewer entries
MaxAgents == 2

AgentPath == LaunchAgentsDir \o "/com.user.a.plist"

\* the Disabled and RunAtLoad keys of a LaunchAgent: absent, either boolean,
\* or (for Disabled) a value that is no boolean
DisabledPool ==
    {<< >>, [Disabled |-> Boolean(TRUE)], [Disabled |-> Boolean(FALSE)],
     [Disabled |-> String("true")]}

RunAtLoadPool ==
    {<< >>, [RunAtLoad |-> Boolean(TRUE)], [RunAtLoad |-> Boolean(FALSE)]}

PlistPool ==
    {Dictionary([Label |-> String("com.user.a"),
                 ProgramArguments |-> Array(<< String("/bin/a") >>)] @@ d @@ r) :
        d \in DisabledPool, r \in RunAtLoadPool}
    \cup {[kind |-> "array"], [kind |-> "garbage"]}

AgentNames == {"A b"}

AgentFileArgs == {"com.user.a.plist", "com.user.a-b.plist"}

InitStartup ==
    /\ \/ fs = << >>
       \/ \E p \in PlistPool :
              fs = [q \in {LaunchAgentsDir, AgentPath} |->
                       IF q = LaunchAgentsDir THEN Directory ELSE p]
       \/ fs = [q \in {LaunchAgentsDir, LaunchAgentsDir \o "/notes.txt"} |->
                   IF q = LaunchAgentsDir THEN Directory ELSE [kind |-> "garbage"]]
    /\ Fresh
    /\ loc = LocIdle

NextStartup ==
    \/ \E home \in BOOLEAN : list_startup_apps(home)
    \/ \E home \in BOOLEAN, name \in AgentNames, now \in Clock, loaded \in HelperOutcomes :
           /\ Cardinality(AgentFiles(fs)) < MaxAgents
           /\ add_startup_app(home, name, "/bin/x", now, loaded)
    \/ \E home \in BOOLEAN, file \in AgentFileArgs, unloaded, loaded \in HelperOutcomes :
           edit_startup_app(home, file, "a", "/bin/y", unloaded, loaded)
    \/ \E home \in BOOLEAN, file \in AgentFileArgs, unloaded \in HelperOutcomes :
           delete_startup_app(home, file, unloaded)
    \/ \E home \in BOOLEAN, file \in AgentFileArgs, enabled \in BOOLEAN, outcome \in HelperOutcomes :
           toggle_startup_app(home, file, enabled, outcome)

SpecStartup == InitStartup /\ [][NextStartup]_vars

\* the startup-entry mutations
StartupMutations == {"add", "edit", "delete", "toggle"}

\* what the handler recorded in `last` returns when every launchctl call
\* of it succeeds
IfLaunchctlSucceeds ==
    CASE last.op = "add" ->
           AddStartup(last.pre, last.home, last.name, last.exec, last.now, "success").result
      [] last.op = "edit" ->
           EditStartup(last.pre, last.home, last.file, last.name, last.exec,
                       "success", "success").result
      [] last.op = "delete" ->
           DeleteStartup(last.pre, last.home, last.file, "success").result
      [] last.op = "toggle" ->
           ToggleStartup(last.pre, last.home, last.file, last.enabled, "success").result
      [] OTHER -> result

\* a launchctl call of the handler recorded in `last` did not succeed
LaunchctlFailed == \E i \in DOMAIN last.launchctl : last.launchctl[i] # "success"

\* the handler recorded in `last` got as far as calling launchctl
ReachedLaunchctl ==
    /\ last.home
    /\ last.op = "add" \/ exists(last.pre, LaunchAgentsDir \o "/" \o last.file)

\* C19 as stated: for add_startup_app, edit_startup_app, delete_startup_app
\* and toggle_startup_app the result is the one returned when launchctl
\* succeeds, whatever launchctl did.
C19_ResultIgnoresLaunchctl ==
    last.op \in StartupMutations => result = IfLaunchctlSucceeds

\* C19: add_startup_app, edit_startup_app and delete_startup_app return the
\* result they return when launchctl succeeds, whatever launchctl did;
\* toggle_startup_app, once the file is found, succeeds exactly when its
\* launchctl call exits with success.
C19_BestEffortExceptToggle ==
    /\ last.op \in {"add", "edit", "delete"} => result = IfLaunchctlSucceeds
    /\ last.op = "toggle" /\ ReachedLaunchctl =>
           /\ result.ok <=> last.launchctl = << "success" >>
           /\ last.launchctl = << "failure" >> =>
                  result = Err("launchctl failed: " \o HelperStderr)
           /\ last.launchctl = << "no_spawn" >> => result = Err(SpawnError)

\* a delete whose launchctl unload failed and that returned success
C19_Witness ==
    /\ last.op = "delete"
    /\ ReachedLaunchctl
    /\ LaunchctlFailed
    /\ result.ok
    /\ ~exists(fs, LaunchAgentsDir \o "/" \o last.file)

\* the Disabled key of the listed agent is absent or not true
NotDisabled(app) ==
    LET d == fs[app.file_path].dict IN
    ~("Disabled" \in DOMAIN d /\ d["Disabled"] = Boolean(TRUE))

\* the RunAtLoad key of the listed agent is true
RunsAtLoad(app) ==
    LET d == fs[app.file_path].dict IN
    "RunAtLoad" \in DOMAIN d /\ d["RunAtLoad"] = Boolean(TRUE)

\* C20 as stated: list_startup_apps reports an agent as enabled exactly when
\* its Disabled key is false or absent and its RunAtLoad key is true.
C20_EnabledIffNotDisabledAndRunAtLoad ==
    last.op = "list" /\ result.ok =>
        \A i \in DOMAIN result.repos :
            result.repos[i].enabled <=>
                (NotDisabled(result.repos[i]) /\ RunsAtLoad(result.repos[i]))

\* what the listing does report: enabled is the negation of a boolean
\* Disabled key alone
C20_EnabledIffNotDisabled ==
    last.op = "list" /\ result.ok =>
        \A i \in DOMAIN result.repos :
            result.repos[i].enabled <=> NotDisabled(result.repos[i])

(***************************************************************************)
(* Custom scripts (src-tauri/src/modules/scripts.rs).  The configuration   *)
(* file is a document [format |-> "yaml" or "json", scripts |-> entries],  *)
(* or a file that does not parse.  An entry of a document is a mapping     *)
(* from keys to values in which the `prompts` key may be missing.          *)
(***************************************************************************)
\* get_config_path() and get_legacy_config_path(), for a home directory /home/u
ConfigPath == "/home/u/.gantry/scripts.yaml"

LegacyConfigPath == "/home/u/.gantry/scripts.json"

CustomScript(id, name, command, requires_sudo, prompts) ==
    [id |-> id, name |-> name, command |-> command,
     requires_sudo |-> requires_sudo, prompts |-> prompts]

\* the keys a CustomScript cannot be deserialized without
RequiredKeys == {"id", "name", "command", "requires_sudo"}

\* deserialization of one entry: #[serde(default)] fills in `prompts`
DeserializeScript(entry) ==
    CustomScript(entry.id, entry.name, entry.command, entry.requires_sudo,
                 IF "prompts" \in DOMAIN entry THEN entry.prompts ELSE << >>)

\* serde_yaml::from_str / serde_json::from_str into ScriptsConfig
Deserialize(doc, format) ==
    IF doc.format # format
       \/ \E i \in DOMAIN doc.scripts : ~(RequiredKeys \subseteq DOMAIN doc.scripts[i])
    THEN [ok |-> FALSE, scripts |-> << >>]
    ELSE [ok |-> TRUE,
          scripts |-> [i \in DOMAIN doc.scripts |-> DeserializeScript(doc.scripts[i])]]

\* serde_yaml::to_string(config): every field of every script is written
Serialize(scripts) == [format |-> "yaml", scripts |-> scripts]

DeserializeError == "invalid type: expected struct ScriptsConfig"

\* save_config(config)
save_config(fsys, scripts) == write(fsys, ConfigPath, Serialize(scripts))

\* load_config(): the file system it leaves, and the configuration or the
\* error it returns
load_config(fsys) ==
    IF exists(fsys, ConfigPath)
    THEN [fs |-> fsys,
          ok |-> Deserialize(fsys[ConfigPath], "yaml").ok,
          scripts |-> Deserialize(fsys[ConfigPath], "yaml").scripts]
    ELSE IF exists(fsys, LegacyConfigPath)
    THEN IF Deserialize(fsys[LegacyConfigPath], "json").ok
         THEN [fs |-> remove_file(save_config(fsys,
                          Deserialize(fsys[LegacyConfigPath], "json").scripts),
                          LegacyConfigPath),
               ok |-> TRUE,
               scripts |-> Deserialize(fsys[LegacyConfigPath], "json").scripts]
         ELSE [fs |-> fsys, ok |-> FALSE, scripts |-> << >>]
    ELSE [fs |-> fsys, ok |-> TRUE, scripts |-> << >>]

\* config.scripts.push(script) as it would be if it put the script first
push_front(scripts, script) == << script >> \o scripts

\* config.scripts.push(script)
push(scripts, script) == Append(scripts, script)

\* config.scripts.retain(|s| s.id != id)
retain(scripts, id) == SelectSeq(scripts, LAMBDA sc : sc.id # id)

\* list_scripts()
ListScripts(fsys) ==
    LET config == load_config(fsys) IN
    IF ~config.ok THEN [fs |-> config.fs, result |-> Err(DeserializeError)]
    ELSE [fs |-> config.fs, result |-> Ok(config.scripts)]

\* format!("script_{}", chrono::Utc::now().timestamp_millis())
ScriptId(now) == "script_" \o format_usize(now)

\* add_script(name, command, requires_sudo, prompts), the clock reading `now`;
\* prompts is << >> for None and << p >> for Some(p)
AddScript(fsys, name, command, requires_sudo, prompts, now) ==
    LET config == load_config(fsys)
        script == CustomScript(ScriptId(now), name, command, requires_sudo,
                               IF prompts = << >> THEN << >> ELSE prompts[1])
    IN  IF ~config.ok THEN [fs |-> config.fs, result |-> Err(DeserializeError)]
        ELSE [fs |-> save_config(config.fs, push(config.scripts, script)),
              result |-> Ok(<< script >>)]

\* remove_script(id)
RemoveScript(fsys, id) ==
    LET config == load_config(fsys) IN
    IF ~config.ok THEN [fs |-> config.fs, result |-> Err(DeserializeError)]
    ELSE [fs |-> save_config(config.fs, retain(config.scripts, id)),
          result |-> Ok(<< >>)]

\* what the script handlers leave in `last`
ScriptCalled(op, id) == [op |-> op, id |-> id, pre |-> fs]

list_scripts ==
    /\ fs' = ListScripts(fs).fs
    /\ result' = ListScripts(fs).result
    /\ last' = ScriptCalled("list_scripts", "")
    /\ UNCHANGED <<loc, calls>>

add_script(name, command, requires_sudo, prompts, now) ==
    /\ fs' = AddScript(fs, name, command, requires_sudo, prompts, now).fs
    /\ result' = AddScript(fs, name, command, requires_sudo, prompts, now).result
    /\ last' = ScriptCalled("add_script", ScriptId(now))
    /\ UNCHANGED <<loc, calls>>

remove_script(id) ==
    /\ fs' = RemoveScript(fs, id).fs
    /\ result' = RemoveScript(fs, id).result
    /\ last' = ScriptCalled("remove_script", id)
    /\ UNCHANGED <<loc, calls>>

(***************************************************************************)
(* SpecScripts: list_scripts, add_script and remove_script.                *)
(***************************************************************************)
\* add_script is called while fewer scripts than this are stored
MaxScripts == 2

\* a stored entry written by an earlier version, without the `prompts` key
OldEntry == [id |-> "script_0", name |-> "old", command |-> "ls", requires_sudo |-> FALSE]

PromptPool == {<< >>, << << [variable |-> "v", label |-> "V"] >> >>}

\* the documents found at ConfigPath
YamlPool ==
    {[format |-> "yaml", scripts |-> << >>],
     [format |-> "yaml", scripts |-> << OldEntry >>],
     [format |-> "yaml", scripts |-> << [name |-> "no id"] >>],
     [format |-> "invalid"]}

\* the documents found at LegacyConfigPath
JsonPool ==
    {[format |-> "json", scripts |-> << OldEntry >>], [format |-> "invalid"]}

RemoveIds == {"script_0", ScriptId(1), ScriptId(2), "nonexistent_id_xyz"}

InitScripts ==
    /\ \/ fs = << >>
       \/ \E y \in YamlPool : fs = write(<< >>, ConfigPath, y)
       \/ \E j \in JsonPool : fs = write(<< >>, LegacyConfigPath, j)
       \/ \E y \in YamlPool, j \in JsonPool :
              fs = write(write(<< >>, ConfigPath, y), LegacyConfigPath, j)
    /\ Fresh
    /\ loc = LocIdle

NextScripts ==
    \/ list_scripts
    \/ \E name \in {"a"}, requires_sudo \in BOOLEAN, prompts \in PromptPool, now \in Clock :
           /\ load_config(fs).ok => Len(load_config(fs).scripts) < MaxScripts
           /\ add_script(name, "echo", requires_sudo, prompts, now)
    \/ \E id \in RemoveIds : remove_script(id)

SpecScripts == InitScripts /\ [][NextScripts]_vars

\* the scripts stored in the file system fsys, as list_scripts returns them
Stored(fsys) == ListScripts(fsys).result.repos

\* the stored configuration of fsys can be read
Readable(fsys) == ListScripts(fsys).result.ok

\* C21: between two listings that succeed, add_script appends the script it
\* returns to the listed scripts, remove_script takes the scripts with the
\* given id out of them and keeps the others in their order, and
\* list_scripts leaves them as they are; remove_script with an id that is
\* not stored succeeds and changes nothing of the listing.
C21_ListIsAddedMinusRemoved ==
    [][Readable(fs) =>
        /\ result'.ok /\ Readable(fs')
        /\ last'.op = "list_scripts" =>
               result'.repos = Stored(fs) /\ Stored(fs') = Stored(fs)
        /\ last'.op = "add_script" =>
               /\ Len(result'.repos) = 1
               /\ result'.repos[1].id = last'.id
               /\ Stored(fs') = Stored(fs) \o result'.repos
        /\ last'.op = "remove_script" =>
               /\ Stored(fs') = SelectSeq(Stored(fs), LAMBDA sc : sc.id # last'.id)
               /\ (\A i \in DOMAIN Stored(fs) : Stored(fs)[i].id # last'.id)
                      => Stored(fs') = Stored(fs)]_vars

\* a script was added to a list holding one already, and one was removed
\* from a list of two by an id only one of them has
C21_Witness ==
    \/ /\ last.op = "add_script" /\ result.ok
       /\ Len(Stored(last.pre)) >= 1
       /\ Len(Stored(fs)) = Len(Stored(last.pre)) + 1
    \/ /\ last.op = "remove_script" /\ result.ok
       /\ Len(Stored(last.pre)) >= 2
       /\ Len(Stored(fs)) = Len(Stored(last.pre)) - 1

(***************************************************************************)
(* The DEB822 parser, paragraph by paragraph.                              *)
(***************************************************************************)
\* the last call listed the DEB822 file at SourcesPath
ListedSources == last.op = "list" /\ result.ok /\ exists(fs, SourcesPath)

\* the lines a..b of ls that begin with the field name
FieldLines(ls, a, b, name) ==
    {j \in a..b : starts_with(trim(ls[j + 1]), name)}

\* the least element of a set of numbers
Least(S) == CHOOSE x \in S : \A y \in S : x <= y

\* the value of the first line of a..b that begins with name, "" without one
FirstValue(ls, a, b, name) ==
    IF FieldLines(ls, a, b, name) = {} THEN ""
    ELSE FieldValue(trim(ls[Least(FieldLines(ls, a, b, name)) + 1]), name)

\* whether a value of the Enabled: field enables
Enables(value) == to_lowercase(value) = "yes" \/ to_lowercase(value) = "true"

\* C22: a record of a DEB822 listing carries, for Types:, URIs:, Suites:,
\* Components: and Enabled:, the value of the first line of its paragraph
\* that begins with the field; later lines with the same field are ignored.
C22_FirstOccurrenceWins ==
    ListedSources =>
        LET ls == lines(fs[SourcesPath]) IN
        \A i \in DOMAIN result.repos :
            LET r == result.repos[i]
                a == ParaFirst(ls, r.line_number)
                b == ParaLast(ls, r.line_number)
            IN  /\ r.types = FirstValue(ls, a, b, "Types:")
                /\ r.uris = FirstValue(ls, a, b, "URIs:")
                /\ r.suites = FirstValue(ls, a, b, "Suites:")
                /\ r.components = FirstValue(ls, a, b, "Components:")
                /\ r.enabled = (FieldLines(ls, a, b, "Enabled:") = {}
                                   \/ Enables(FirstValue(ls, a, b, "Enabled:")))

\* C23: the line number of a record of a DEB822 listing is the index of the
\* first Types: line of its paragraph, whatever the order of the fields and
\* the place of the paragraph in the file, and the index of the first line
\* of the paragraph when it has no Types: line.
C23_AnchorIsFirstTypes ==
    ListedSources =>
        LET ls == lines(fs[SourcesPath]) IN
        \A i \in DOMAIN result.repos :
            LET r == result.repos[i]
                a == ParaFirst(ls, r.line_number)
                b == ParaLast(ls, r.line_number)
            IN  r.line_number =
                    IF FieldLines(ls, a, b, "Types:") = {} THEN a
                    ELSE Least(FieldLines(ls, a, b, "Types:"))

\* the first lines of the paragraphs of ls that hold a URIs: line with a
\* value
UriParagraphs(ls) ==
    {a \in 0..(Len(ls) - 1) :
        /\ InParagraph(ls, a) /\ ParaFirst(ls, a) = a
        /\ \E j \in FieldLines(ls, a, ParaLast(ls, a), "URIs:") :
               FieldValue(trim(ls[j + 1]), "URIs:") # ""}

\* the fields of a record that do not depend on where its paragraph stands,
\* as a listing returns them
Fields(r) ==
    [types |-> r.types, uris |-> r.uris, suites |-> r.suites,
     components |-> r.components, enabled |-> r.enabled]

\* C24: a DEB822 listing holds one record for each paragraph with a URIs:
\* line that has a value, and no other; the records follow the order of the
\* paragraphs, the last paragraph is listed whether or not a blank line
\* follows it, and the fields of a record are those its paragraph gives when
\* it stands alone in a file: nothing is carried over a blank line.
C24_OneRecordPerUriParagraph ==
    ListedSources =>
        LET ls == lines(fs[SourcesPath]) IN
        /\ Len(result.repos) = Cardinality(UriParagraphs(ls))
        /\ \A i \in DOMAIN result.repos :
               LET r == result.repos[i]
                   a == ParaFirst(ls, r.line_number)
                   b == ParaLast(ls, r.line_number)
                   alone == ParseDeb822(join(SubSeq(ls, a + 1, b + 1), "\n"), SourcesPath)
               IN  /\ a \in UriParagraphs(ls)
                   /\ Cardinality({c \in UriParagraphs(ls) : c < a}) = i - 1
                   /\ Len(alone) = 1 /\ Fields(alone[1]) = Fields(r)

\* the greatest element of a set of numbers
Greatest(S) == CHOOSE x \in S : \A y \in S : y <= x

\* the first lines of the paragraphs of ls whose last URIs: line has a value
LastUriParagraphs(ls) ==
    {a \in 0..(Len(ls) - 1) :
        /\ InParagraph(ls, a) /\ ParaFirst(ls, a) = a
        /\ FieldLines(ls, a, ParaLast(ls, a), "URIs:") # {}
        /\ FieldValue(trim(ls[Greatest(FieldLines(ls, a, ParaLast(ls, a), "URIs:")) + 1]),
                      "URIs:") # ""}

\* what the parser does about C24: the paragraphs listed are those whose
\* last URIs: line has a value; the rest is as C24 has it
C24_OneRecordPerLastUri ==
    ListedSources =>
        LET ls == lines(fs[SourcesPath]) IN
        /\ Len(result.repos) = Cardinality(LastUriParagraphs(ls))
        /\ \A i \in DOMAIN result.repos :
               LET r == result.repos[i]
                   a == ParaFirst(ls, r.line_number)
                   b == ParaLast(ls, r.line_number)
                   alone == ParseDeb822(join(SubSeq(ls, a + 1, b + 1), "\n"), SourcesPath)
               IN  /\ a \in LastUriParagraphs(ls)
                   /\ Cardinality({c \in LastUriParagraphs(ls) : c < a}) = i - 1
                   /\ Len(alone) = 1 /\ Fields(alone[1]) = Fields(r)

(***************************************************************************)
(* The traditional parser, line by line.                                   *)
(***************************************************************************)
\* the last call listed the traditional file at BasePath
ListedBase == last.op = "list" /\ result.ok /\ exists(fs, BasePath)

\* the line begins, after leading whitespace, with the comment marker
IsCommented(line) == starts_with(trim(line), "#")

\* a commented line without its comment marker (the leading '#' characters)
\* and the whitespace around, any other line without the whitespace around
Remainder(line) ==
    IF IsCommented(line) THEN trim(trim_start_matches(trim(line), "#")) ELSE trim(line)

\* the line yields a record
IsRecordLine(line) ==
    starts_with(Remainder(line), "deb") /\ Len(split_whitespace(Remainder(line))) >= 3

\* C25: a listing of a traditional file holds one record for each line that,
\* without a comment marker and the whitespace after it, starts with deb and
\* has three tokens or more, and none for any other line; the record is
\* disabled when the line is commented and enabled when it is not, its
\* line number is the 0-based index of the line and its id is built from it.
C25_LineClassified ==
    ListedBase =>
        LET ls == lines(fs[BasePath])
            rs == result.repos
        IN  /\ {rs[i].line_number : i \in DOMAIN rs}
                  = {n \in 0..(Len(ls) - 1) : IsRecordLine(ls[n + 1])}
            /\ \A i, j \in DOMAIN rs : i < j => rs[i].line_number < rs[j].line_number
            /\ \A i \in DOMAIN rs :
                   /\ rs[i].enabled = ~IsCommented(ls[rs[i].line_number + 1])
                   /\ rs[i].id = format_id(BasePath, rs[i].line_number)
                   /\ rs[i].types = split_whitespace(Remainder(ls[rs[i].line_number + 1]))[1]
                   /\ rs[i].uris = split_whitespace(Remainder(ls[rs[i].line_number + 1]))[2]
                   /\ rs[i].suites = split_whitespace(Remainder(ls[rs[i].line_number + 1]))[3]

\* a listing with a disabled record from a commented line, after a line that
\* starts with deb and has too few tokens to be listed
C25_Witness ==
    /\ ListedBase
    /\ LET ls == lines(fs[BasePath]) IN
       /\ Len(ls) = 2
       /\ starts_with(Remainder(ls[1]), "deb") /\ ~IsRecordLine(ls[1])
       /\ IsCommented(ls[2]) /\ IsRecordLine(ls[2])
    /\ Len(result.repos) = 1
    /\ ~result.repos[1].enabled
    /\ result.repos[1].line_number = 1

(***************************************************************************)
(* Listings before and after a mutation.                                   *)
(***************************************************************************)
\* what a listing of the addressed file returned before the last call, and
\* what it returns after it
Before == parse_sources_file(last.pre, LastPath)

After == parse_sources_file(fs, LastPath)

\* C26: after a successful toggle_apt_repo(r.id, e) on a record r of a
\* listing, a new listing holds as many records; the record at the place of
\* r is enabled exactly when e, every other record is enabled as before, and
\* types, uris, suites and components of every record are as before.
C26_ToggleSetsOneRecord ==
    (Succeeded("toggle") /\ OnListedRecord) =>
        /\ Len(After) = Len(Before)
        /\ \A i \in DOMAIN Before :
               /\ i \in DOMAIN After
               /\ Fields(After[i]) =
                      [Fields(Before[i]) EXCEPT !.enabled =
                          IF Before[i].id = last.id THEN last.enabled ELSE @]

\* C27: the listing after a successful toggle of a listed record gives every
\* record the id it had in the listing before.
C27_ToggleKeepsIds ==
    (Succeeded("toggle") /\ OnListedRecord) =>
        /\ Len(After) = Len(Before)
        /\ \A i \in DOMAIN Before : i \in DOMAIN After /\ After[i].id = Before[i].id

\* the records rs but those with the id
Others(rs, id) == SelectSeq(rs, LAMBDA r : r.id # id)

\* the fields of each record of rs
AllFields(rs) == [i \in DOMAIN rs |-> Fields(rs[i])]

\* C28: the listing after a successful delete of a listed record holds the
\* other records of the listing before, in their order and with their
\* fields, and nothing else.
C28_DeleteKeepsOthers ==
    (Succeeded("delete") /\ OnListedRecord) =>
        AllFields(After) = AllFields(Others(Before, last.id))

\* C29: a successful toggle_apt_repo(id, e) that follows a successful
\* toggle_apt_repo(id, e) of a listed record, with the same id and the same
\* e, leaves the file as the first left it.
C29_ToggleIdempotent ==
    [][ ( /\ last.op = "toggle" /\ last.outcome = "success" /\ result.ok
          /\ OnListedRecord
          /\ last'.op = "toggle" /\ last'.outcome = "success" /\ result'.ok
          /\ last'.id = last.id /\ last'.enabled = last.enabled )
        => fs' = fs ]_vars

\* what holds of two such toggles: the second leaves the lines of the file,
\* as lines() reads them, as the first left them
C29_SameLinesTwice ==
    [][ ( /\ last.op = "toggle" /\ last.outcome = "success" /\ result.ok
          /\ OnListedRecord
          /\ last'.op = "toggle" /\ last'.outcome = "success" /\ result'.ok
          /\ last'.id = last.id /\ last'.enabled = last.enabled )
        => lines(fs'[LastPath]) = lines(fs[LastPath]) ]_vars

(***************************************************************************)
(* SpecToggle: list_apt_repos and toggle_apt_repo on a file of either      *)
(* format, the fields of a paragraph in any order.                         *)
(***************************************************************************)
\* paragraphs with their fields in several orders
FieldOrderPool ==
    StanzaPool \cup
    { << "URIs: u", "Types: deb" >>,
      << "Enabled: no", "URIs: u", "Suites: s", "Types: deb" >> }

ToggleFiles ==
    {Text(ls, "\n", TRUE) :
        ls \in UNION {[1..n -> ListLinePool] : n \in 1..MaxLines}}

ToggleSourcesFiles ==
    {Text(Flatten(ps), "\n", TRUE) :
        ps \in UNION {[1..n -> FieldOrderPool] : n \in 1..MaxStanzas}}

InitToggle ==
    /\ \/ \E c \in ToggleFiles : fs = write(<< >>, BasePath, c)
       \/ \E c \in ToggleSourcesFiles : fs = write(<< >>, SourcesPath, c)
    /\ Fresh
    /\ loc = LocIdle

NextToggle ==
    \/ list_apt_repos
    \/ \E id \in CallIds, enabled \in BOOLEAN, outcome \in {"success", "failure"} :
           toggle_apt_repo(id, enabled, outcome)

SpecToggle == InitToggle /\ [][NextToggle]_vars

\* a record of a DEB822 file of two records was toggled to a new value, the
\* other record being disabled; and the same on a traditional file
C26_Witness ==
    /\ Succeeded("toggle") /\ OnListedRecord
    /\ Len(Before) = 2
    /\ \E i, j \in DOMAIN Before :
           /\ Before[i].id = last.id /\ Before[i].enabled # last.enabled
           /\ i # j /\ ~Before[j].enabled /\ ~After[j].enabled
           /\ After[i].enabled = last.enabled
    /\ is_deb822(LastPath) => LastLine > 0

(***************************************************************************)
(* Startup entries on Linux: the desktop entries of ~/.config/autostart.   *)
(* A directory is in the file system as its path followed by "/".          *)
(***************************************************************************)
\* home.join(".config").join("autostart"), for a home directory /home/u
AutostartDir == "/home/u/.config/autostart"

dir_exists(fsys, dir) == exists(fsys, dir \o "/")

\* fs::create_dir_all(dir)
create_dir_all(fsys, dir) == IF dir_exists(fsys, dir) THEN fsys ELSE write(fsys, dir \o "/", "")

\* the entries read_dir yields for AutostartDir
AutostartFiles(fsys) ==
    {p \in DOMAIN fsys :
        /\ starts_with(p, AutostartDir \o "/")
        /\ Len(p) > Len(AutostartDir) + 1
        /\ LastIndexOf(p, "/") = Len(AutostartDir) + 1}

\* name, exec and hidden before the first line of an entry; << >> is None
DesktopStart == [name |-> << >>, exec |-> << >>, hidden |-> FALSE]

\* line.trim_start_matches("Hidden=").trim().eq_ignore_ascii_case("true")
HiddenValue(line) == to_lowercase(trim(trim_start_matches(line, "Hidden="))) = "true"

\* one iteration of the loop of list_startup_apps over the lines of an entry
DesktopStep(st, line) ==
    [name |-> IF starts_with(line, "Name=")
              THEN << trim_start_matches(line, "Name=") >> ELSE st.name,
     exec |-> IF starts_with(line, "Exec=")
              THEN << trim_start_matches(line, "Exec=") >> ELSE st.exec,
     hidden |-> IF starts_with(line, "Hidden=") THEN HiddenValue(line) ELSE st.hidden]

RECURSIVE DesktopLoop(_, _, _)
DesktopLoop(ls, i, st) ==
    IF i > Len(ls) THEN st ELSE DesktopLoop(ls, i + 1, DesktopStep(st, ls[i]))

\* what list_startup_apps pushes for the entry at path
DesktopApp(fsys, path) ==
    LET st == DesktopLoop(lines(fsys[path]), 1, DesktopStart) IN
    [file |-> file_name(path), name |-> st.name, exec |-> st.exec,
     enabled |-> ~st.hidden, file_path |-> path]

\* list_startup_apps on Linux, read_dir yielding the entries in the order ord
ListDesktop(fsys, home, ord) ==
    IF ~home \/ ~dir_exists(fsys, AutostartDir) THEN Ok(<< >>)
    ELSE Ok([i \in DOMAIN ord |-> DesktopApp(fsys, ord[i])])

\* the file name add_startup_app chooses on Linux, the clock reading `now`
DesktopFileName(fsys, name, now) ==
    LET stem == KeepNameChars(replace(to_lowercase(name), " ", "-")) IN
    IF exists(fsys, AutostartDir \o "/" \o stem \o ".desktop")
    THEN stem \o "_" \o format_usize(now) \o ".desktop"
    ELSE stem \o ".desktop"

\* add_startup_app(name, exec) on Linux
AddDesktop(fsys, home, name, exec, now) ==
    LET made == create_dir_all(fsys, AutostartDir)
        filename == DesktopFileName(made, name, now)
        content == "[Desktop Entry]\nType=Application\nName=" \o name
                       \o "\nExec=" \o exec \o "\nHidden=false\n"
    IN  IF ~home THEN [fs |-> fsys, result |-> NoHome]
        ELSE [fs |-> write(made, AutostartDir \o "/" \o filename, content),
              result |-> Ok(<< filename >>)]

\* the line edit_startup_app writes for a line of the entry
EditDesktopLine(line, name, exec) ==
    IF starts_with(line, "Name=") THEN "Name=" \o name
    ELSE IF starts_with(line, "Exec=") THEN "Exec=" \o exec
    ELSE line

\* edit_startup_app(file, name, exec) on Linux
EditDesktop(fsys, home, file, name, exec) ==
    LET filepath == AutostartDir \o "/" \o file
        ls == lines(fsys[filepath])
        new_content == join([i \in DOMAIN ls |-> EditDesktopLine(ls[i], name, exec)], "\n")
    IN  IF ~home THEN [fs |-> fsys, result |-> NoHome]
        ELSE IF ~exists(fsys, filepath)
        THEN [fs |-> fsys, result |-> Err("Desktop file not found")]
        ELSE [fs |-> write(fsys, filepath, new_content \o "\n"), result |-> Ok(<< >>)]

\* delete_startup_app(file) on Linux
DeleteDesktop(fsys, home, file) ==
    LET filepath == AutostartDir \o "/" \o file IN
    IF ~home THEN [fs |-> fsys, result |-> NoHome]
    ELSE IF ~exists(fsys, filepath)
    THEN [fs |-> fsys, result |-> Err("Desktop file not found")]
    ELSE [fs |-> remove_file(fsys, filepath), result |-> Ok(<< >>)]

\* format!("Hidden={}", hidden_value)
HiddenLine(enabled) == "Hidden=" \o (IF enabled THEN "false" ELSE "true")

\* new_content of toggle_startup_app on Linux
ToggleDesktopContent(content, enabled) ==
    LET ls == lines(content)
        found_hidden == \E i \in DOMAIN ls : starts_with(ls[i], "Hidden=")
        new_lines == [i \in DOMAIN ls |->
                         IF starts_with(ls[i], "Hidden=")
                         THEN HiddenLine(enabled) ELSE ls[i]]
    IN  IF found_hidden THEN join(new_lines, "\n")
        ELSE join(new_lines, "\n") \o "\n" \o HiddenLine(enabled)

\* toggle_startup_app(file, enabled) on Linux
ToggleDesktop(fsys, home, file, enabled) ==
    LET filepath == AutostartDir \o "/" \o file IN
    IF ~home THEN [fs |-> fsys, result |-> NoHome]
    ELSE IF ~exists(fsys, filepath)
    THEN [fs |-> fsys, result |-> Err("Desktop file not found")]
    ELSE [fs |-> write(fsys, filepath,
                       ToggleDesktopContent(fsys[filepath], enabled) \o "\n"),
          result |-> Ok(<< >>)]

\* what the Linux startup handlers leave in `last`: no command is handed to
\* the elevation helper
DesktopCalled(op, home, file, name, exec, enabled, now) ==
    [op |-> op, home |-> home, file |-> file, name |-> name, exec |-> exec,
     enabled |-> enabled, now |-> now, helper |-> << >>, pre |-> fs]

list_desktop_apps(home) ==
    /\ \E ord \in Orderings(AutostartFiles(fs)) : result' = ListDesktop(fs, home, ord)
    /\ last' = DesktopCalled("list", home, "", "", "", FALSE, 0)
    /\ UNCHANGED <<fs, loc, calls>>

add_desktop_app(home, name, exec, now) ==
    /\ fs' = AddDesktop(fs, home, name, exec, now).fs
    /\ result' = AddDesktop(fs, home, name, exec, now).result
    /\ last' = DesktopCalled("add", home, "", name, exec, FALSE, now)
    /\ UNCHANGED <<loc, calls>>

edit_desktop_app(home, file, name, exec) ==
    /\ fs' = EditDesktop(fs, home, file, name, exec).fs
    /\ result' = EditDesktop(fs, home, file, name, exec).result
    /\ last' = DesktopCalled("edit", home, file, name, exec, FALSE, 0)
    /\ UNCHANGED <<loc, calls>>

delete_desktop_app(home, file) ==
    /\ fs' = DeleteDesktop(fs, home, file).fs
    /\ result' = DeleteDesktop(fs, home, file).result
    /\ last' = DesktopCalled("delete", home, file, "", "", FALSE, 0)
    /\ UNCHANGED <<loc, calls>>

toggle_desktop_app(home, file, enabled) ==
    /\ fs' = ToggleDesktop(fs, home, file, enabled).fs
    /\ result' = ToggleDesktop(fs, home, file, enabled).result
    /\ last' = DesktopCalled("toggle", home, file, "", "", enabled, 0)
    /\ UNCHANGED <<loc, calls>>

(***************************************************************************)
(* SpecDesktop: the startup handlers of Linux on ~/.config/autostart.      *)
(***************************************************************************)
\* add_startup_app is called while the directory holds fewer entries
MaxEntries == 2

\* edit_startup_app is called while no entry has more lines than this
MaxEntryLines == 5

\* most Hidden= lines of an entry in the initial file system
MaxHiddenLines == 2

EntryPath == AutostartDir \o "/a.desktop"

HiddenPool == {"Hidden=true", "Hidden=false", "Hidden= TRUE "}

\* the lines of an entry before its Hidden= lines
EntryHeads == { << "[Desktop Entry]", "Name=a", "Exec=x" >>, << "Exec=x" >> }

EntryFiles ==
    {Text(h \o hs, "\n", final) :
        h \in EntryHeads,
        hs \in UNION {[1..n -> HiddenPool] : n \in 0..MaxHiddenLines},
        final \in BOOLEAN}

\* names given to edit_startup_app: one line, or a text of two lines
EditNames == {"b", "b\nHidden=true"}

DesktopFileArgs == {"a.desktop", "b.desktop"}

InitDesktop ==
    /\ \/ fs = << >>
       \/ \E c \in EntryFiles : fs = write(create_dir_all(<< >>, AutostartDir), EntryPath, c)
    /\ Fresh
    /\ loc = LocIdle

NextDesktop ==
    \/ \E home \in BOOLEAN : list_desktop_apps(home)
    \/ \E home \in BOOLEAN, now \in Clock :
           /\ Cardinality(AutostartFiles(fs)) < MaxEntries
           /\ add_desktop_app(home, "B", "y", now)
    \/ \E home \in BOOLEAN, file \in DesktopFileArgs, name \in EditNames :
           /\ \A p \in AutostartFiles(fs) : Len(lines(fs[p])) <= MaxEntryLines
           /\ edit_desktop_app(home, file, name, "y")
    \/ \E home \in BOOLEAN, file \in DesktopFileArgs : delete_desktop_app(home, file)
    \/ \E home \in BOOLEAN, file \in DesktopFileArgs, enabled \in BOOLEAN :
           toggle_desktop_app(home, file, enabled)

SpecDesktop == InitDesktop /\ [][NextDesktop]_vars

\* the entry the last call addressed, as a listing reported it before the
\* call and as a listing reports it after
EntryBefore == DesktopApp(last.pre, AutostartDir \o "/" \o last.file)

EntryAfter == DesktopApp(fs, AutostartDir \o "/" \o last.file)

\* the last call was `op`, on an entry that exists, and succeeded
DesktopDone(op) ==
    /\ last.op = op /\ result.ok
    /\ exists(last.pre, AutostartDir \o "/" \o last.file)

\* C30: after a successful toggle_startup_app(file, e) the entry is listed
\* with enabled = e and with the name and the exec it had; after a
\* successful edit_startup_app the entry is listed with the enabled value it
\* had; neither call hands a command to the elevation helper.
C30_ToggleAndEditKeepTheRest ==
    /\ DesktopDone("toggle") =>
           /\ EntryAfter.enabled = last.enabled
           /\ EntryAfter.name = EntryBefore.name
           /\ EntryAfter.exec = EntryBefore.exec
           /\ last.helper = << >>
    /\ DesktopDone("edit") =>
           /\ EntryAfter.enabled = EntryBefore.enabled
           /\ last.helper = << >>

\* the part of C30 about toggle_startup_app, which holds
C30_ToggleSetsEnabled ==
    DesktopDone("toggle") =>
        /\ EntryAfter.enabled = last.enabled
        /\ EntryAfter.name = EntryBefore.name
        /\ EntryAfter.exec = EntryBefore.exec
        /\ last.helper = << >>

\* the part of C30 about edit_startup_app, for a name and an exec of one line
C30_EditKeepsEnabled ==
    (DesktopDone("edit") /\ IndexOf(last.name, "\n") = 0 /\ IndexOf(last.exec, "\n") = 0) =>
        /\ EntryAfter.enabled = EntryBefore.enabled
        /\ EntryBefore.name # << >> => EntryAfter.name = << last.name >>
        /\ EntryBefore.exec # << >> => EntryAfter.exec = << last.exec >>

====
